---- MODULE Spec2Model ----
(***************************************************************************)
(* Conversation-state engine of the tool-using agent, as implemented by    *)
(* DirectAgentSimulator (backend/tests/test_multi_turn.py): the ledger     *)
(* `conversation_history`, one turn of execute_task split at its awaits,   *)
(* the commit with per-message truncation, the two-stage trimmer, and the  *)
(* validator validate_message_sequence.                                    *)
(*                                                                         *)
(* A text is modelled by what the code reads of it: its length, whether    *)
(* strip() leaves anything, whether the truncation marker ends it, and     *)
(* what tells texts apart (its origin and, for a question, its number).    *)
(***************************************************************************)
EXTENDS Integers, Sequences, FiniteSets, TLC

VARIABLES
    conversation_history,  \* self.conversation_history: the session ledger
    tool_definitions,      \* TRUE iff skill_set.get_tool_definitions() is non-empty
    max_rounds,            \* the configured round ceiling handed to the trimmer
    pc,                    \* where execute_task stands: idle or the await it is suspended at
    messages,              \* execute_task's local transcript
    history_len,           \* execute_task's local history_len
    tool_round,            \* the for-loop counter of the tool loop
    tool_calls,            \* the invocations of the assistant message being served
    tc_idx,                \* position of the invocation being executed (1-based)
    content,               \* the text of the last chat_complete response
    last_result,           \* what execute_skill returned last in this turn
    full_response,         \* the reply text of the final chat
    outcome,               \* how the last call ended: none, running, returned, raised
    committed,             \* number of calls that returned normally
    trim_input,            \* the history handed to the trimmer when it is run on its own
    report,                \* what validate_message_sequence returned
    final_report,          \* what extract_session_summary returned
    current,               \* the agent whose call is running
    parked,                \* the other agent: its fields and the locals of its call
    ledgers,               \* the list object behind each agent's conversation_history
    auth,                  \* one call of verify_session_owner and the two session stores
    search,                \* one call of web_search, web_search_news or sougou_search
    runner,                \* the end-to-end runner and its progress file
    retry,                 \* one call of call_with_retry
    engine,                \* one E2EConversationEngine and its call of chat
    scenario,              \* one run of run_scenario with its judge
    trimmer                \* one call of a trimmer, stepped through its loop

vars == <<conversation_history, tool_definitions, max_rounds, pc, messages,
          history_len, tool_round, tool_calls, tc_idx, content, last_result,
          full_response, outcome, committed, trim_input, report, final_report,
          current, parked, ledgers, auth, search, runner, retry, engine,
          scenario, trimmer>>

\* the end-to-end harness and the trimmer taken step by step
harness == <<engine, scenario, trimmer>>

\* the collaborators around the conversation engine
apart == <<auth, search, runner, retry, harness>>

\* what a call of execute_task or of the trimmer on one agent leaves alone
aside == <<trim_input, report, final_report, current, parked, ledgers, apart>>

---------------------------------------------------------------------------
(* Program constants *)

max_tool_rounds == 5

DEFAULT_MAX_ROUNDS == 6

\* call_with_retry(coro_func, max_retries=5, base_delay=15)
DEFAULT_MAX_RETRIES == 5

BASE_DELAY == 15

DELAY_CEILING == 120

MAX_HISTORY_CHARS == 24000

\* the budget of the end-to-end engine's trimmer
MAX_CHARS == 24000

\* E2EConversationEngine.__init__(self, max_rounds: int = 6)
ENGINE_MAX_ROUNDS == 6

TOOL_RESULT_CEILING == 1500

MARKER_LEN == 18

REPORT_CEILING == 2000

(* Bounds of the exploration *)

\* turns committed in one exploration
MaxTurns == 3

\* tool messages in one transcript
MaxToolMessages == 2

\* oversized user texts in one ledger
MaxBigs == 1

MaxHistLen == 4

MaxRoundsArg == 3

\* calls of each agent when two agents run side by side
PairTurns == 2

\* runs of the end-to-end runner, one after the other
MaxRuns == 2

\* turns of the engine whose tool loop is followed to its last iteration
LoopTurns == 1

\* the largest max_retries call_with_retry is given, besides its default
MaxRetriesArg == 2

\* the most turns a scenario handed to run_scenario has
MaxScenarioTurns == 2

\* the turns the engine and the simulator are followed side by side
EquivTurns == 7

---------------------------------------------------------------------------
(* Texts *)

\* kind tells texts of different origin apart, n numbers the user's questions,
\* cut says that the truncation marker was appended
Text(kind, n, len, blank) ==
    [kind |-> kind, n |-> n, len |-> len, blank |-> blank, cut |-> FALSE]

\* "" and None: both falsy, both of length 0 under `m.content or ""`
EmptyText == Text("empty", 0, 0, TRUE)

\* str.strip() leaves something
StripNonEmpty(t) == ~t.blank

\* a text is truthy in Python iff it is not ""
Truthy(t) == t.len > 0

SYSTEM_PROMPT == Text("system", 0, 16, FALSE)

NO_RESULT == Text("no_result", 0, 3, FALSE)

EXEC_FAILED == Text("exec_failed", 0, 4, FALSE)

\* content[:1500] + marker
CutWithMarker(t) ==
    [t EXCEPT !.len = TOOL_RESULT_CEILING + MARKER_LEN, !.blank = FALSE, !.cut = TRUE]

\* t[:k]
Prefix(t, k) == IF t.len <= k THEN t ELSE [t EXCEPT !.len = k]

---------------------------------------------------------------------------
(* Messages *)

NoCalls == <<>>

NoId == "none"

LLMMessage(role, content_, calls_, call_id) ==
    [role |-> role, content |-> content_, tool_calls |-> calls_, tool_call_id |-> call_id]

ToolCall(id, name) == [id |-> id, name |-> name]

HasToolCalls(m) == Len(m.tool_calls) > 0

---------------------------------------------------------------------------
(* Sequence helpers *)

Indices(h) == 1..Len(h)

\* h[i:] of Python for the 1-based position i+1
From(h, i) == SubSeq(h, i, Len(h))

RECURSIVE SumLens(_)
SumLens(h) ==
    IF h = <<>> THEN 0 ELSE Head(h).content.len + SumLens(Tail(h))

RECURSIVE Ascending(_)
Ascending(S) ==
    IF S = {} THEN <<>>
    ELSE LET m == CHOOSE x \in S : \A y \in S : x <= y
         IN <<m>> \o Ascending(S \ {m})

\* [i for i, m in enumerate(history) if m.role == "user"], 1-based
RoundStarts(h) == Ascending({i \in Indices(h) : h[i].role = "user"})

count_rounds(h) == Cardinality({i \in Indices(h) : h[i].role = "user"})

TotalChars(h) == SumLens(h)

---------------------------------------------------------------------------
(* Retention trimmer: _trim_conversation_history *)

\* round_starts[-n] of Python, on the 1-based positions (round_starts[-0] is
\* round_starts[0])
FromEnd(rs, n) == IF n = 0 THEN rs[1] ELSE rs[Len(rs) - n + 1]

\* a trimmer that keeps the last 2 * max_rounds messages, whatever they are
TrimRoundsByMessages(h, R) ==
    IF Len(h) > 2 * R THEN From(h, Len(h) - 2 * R + 1) ELSE h

\* a trimmer that keeps the oldest max_rounds rounds
TrimRoundsOldest(h, R) ==
    LET round_starts == RoundStarts(h)
    IN IF Len(round_starts) > R
       THEN SubSeq(h, 1, round_starts[R + 1] - 1)
       ELSE h

\* a trimmer that lets one round too many through
TrimRoundsLoose(h, R) ==
    LET round_starts == RoundStarts(h)
    IN IF Len(round_starts) > R + 1
       THEN From(h, FromEnd(round_starts, R))
       ELSE h

\* stage A: keep the max_rounds most recent rounds
TrimRounds(h, R) ==
    LET round_starts == RoundStarts(h)
    IN IF Len(round_starts) > R
       THEN From(h, FromEnd(round_starts, R))
       ELSE h

\* a budget loop without a floor: it evicts down to the last round
RECURSIVE BudgetLoopNoFloor(_, _)
BudgetLoopNoFloor(h, total_chars) ==
    LET round_starts == RoundStarts(h)
    IN IF total_chars > MAX_HISTORY_CHARS /\ Len(round_starts) > 0
       THEN LET next_round_start ==
                    IF Len(round_starts) > 1 THEN round_starts[2] ELSE Len(h) + 1
                removed_chars == SumLens(SubSeq(h, 1, next_round_start - 1))
            IN BudgetLoopNoFloor(From(h, next_round_start), total_chars - removed_chars)
       ELSE h

\* a budget loop whose floor is one round
RECURSIVE BudgetLoopFloorOne(_, _)
BudgetLoopFloorOne(h, total_chars) ==
    LET round_starts == RoundStarts(h)
    IN IF total_chars > MAX_HISTORY_CHARS /\ Len(round_starts) > 1
       THEN LET next_round_start == round_starts[2]
                removed_chars == SumLens(SubSeq(h, 1, next_round_start - 1))
            IN BudgetLoopFloorOne(From(h, next_round_start), total_chars - removed_chars)
       ELSE h

\* a budget loop whose floor is three rounds
RECURSIVE BudgetLoopFloorThree(_, _)
BudgetLoopFloorThree(h, total_chars) ==
    LET round_starts == RoundStarts(h)
    IN IF total_chars > MAX_HISTORY_CHARS /\ Len(round_starts) > 3
       THEN LET next_round_start == round_starts[2]
                removed_chars == SumLens(SubSeq(h, 1, next_round_start - 1))
            IN BudgetLoopFloorThree(From(h, next_round_start), total_chars - removed_chars)
       ELSE h

\* stage B: the while loop, total_chars kept by subtraction as the code does
RECURSIVE BudgetLoop(_, _)
BudgetLoop(h, total_chars) ==
    LET round_starts == RoundStarts(h)
    IN IF total_chars > MAX_HISTORY_CHARS /\ Len(round_starts) > 2
       THEN LET next_round_start ==
                    IF Len(round_starts) > 1 THEN round_starts[2] ELSE Len(h) + 1
                removed_chars == SumLens(SubSeq(h, 1, next_round_start - 1))
            IN BudgetLoop(From(h, next_round_start), total_chars - removed_chars)
       ELSE h

\* a budget stage that evicts one round per call (an `if` for the `while`)
TrimBudgetOnce(h) ==
    LET round_starts == RoundStarts(h)
    IN IF TotalChars(h) > MAX_HISTORY_CHARS /\ Len(round_starts) > 2
       THEN From(h, round_starts[2])
       ELSE h

TrimBudget(h) == BudgetLoop(h, TotalChars(h))

Trim(h, R) ==
    IF h = <<>> THEN h ELSE TrimBudget(TrimRounds(h, R))

---------------------------------------------------------------------------
(* Retention trimmer of the end-to-end engine: _trim_history *)

\* an engine trimmer without the budget stage
TrimHistoryNoBudget(h, total_chars) == h

\* lines 123-128: keep the max_rounds most recent rounds
TrimHistoryRounds(h, R) ==
    LET round_starts == RoundStarts(h)
    IN IF Len(round_starts) > R
       THEN LET trim_from == FromEnd(round_starts, R)
            IN From(h, trim_from)
       ELSE h

\* lines 132-137: the while loop over MAX_CHARS
RECURSIVE TrimHistoryBudget(_, _)
TrimHistoryBudget(h, total_chars) ==
    LET round_starts == RoundStarts(h)
    IN IF total_chars > MAX_CHARS /\ Len(round_starts) > 2
       THEN LET next_start ==
                    IF Len(round_starts) > 1 THEN round_starts[2] ELSE Len(h) + 1
                removed == SumLens(SubSeq(h, 1, next_start - 1))
            IN TrimHistoryBudget(From(h, next_start), total_chars - removed)
       ELSE h

\* _trim_history on self.conversation_history = h, self.max_rounds = R
TrimHistory(h, R) ==
    LET kept == TrimHistoryRounds(h, R)
    IN TrimHistoryBudget(kept, SumLens(kept))

---------------------------------------------------------------------------
(* Validator: validate_message_sequence *)

\* the backward scan from position i: an assistant message with invocations
\* met before any user message
FoundToolCalls(h, i) ==
    \E j \in 1..(i - 1) :
        /\ h[j].role = "assistant"
        /\ HasToolCalls(h[j])
        /\ \A k \in (j + 1)..(i - 1) : h[k].role # "user"

\* a validator that looks at tool messages only
ValidateToolsOnly(h) ==
    Ascending({i \in Indices(h) : h[i].role = "tool" /\ ~FoundToolCalls(h, i)})

\* the error list: 0 for "the first message is not a user message", i for the
\* tool message at position i that has no assistant(tool_calls) before it
validate_message_sequence(h) ==
    IF h = <<>> THEN <<>>
    ELSE (IF h[1].role # "user" THEN <<0>> ELSE <<>>)
         \o Ascending({i \in Indices(h) : h[i].role = "tool" /\ ~FoundToolCalls(h, i)})

---------------------------------------------------------------------------
(* Session summary: extract_session_summary *)

\* a summary that takes the last assistant message with content, invocations
\* or not
ExtractAnyAssistant(h) ==
    LET assistant_msgs ==
            SelectSeq(h, LAMBDA m : m.role = "assistant" /\ Truthy(m.content))
    IN IF assistant_msgs # <<>>
       THEN Prefix(assistant_msgs[Len(assistant_msgs)].content, REPORT_CEILING)
       ELSE EmptyText

\* final_report: the last of the assistant messages with content and without
\* invocations, cut to REPORT_CEILING
extract_session_summary(h) ==
    IF h = <<>> THEN EmptyText
    ELSE LET assistant_msgs ==
                 SelectSeq(h, LAMBDA m : /\ m.role = "assistant"
                                         /\ Truthy(m.content)
                                         /\ ~HasToolCalls(m))
         IN IF assistant_msgs # <<>>
            THEN Prefix(assistant_msgs[Len(assistant_msgs)].content, REPORT_CEILING)
            ELSE EmptyText

---------------------------------------------------------------------------
(* execute_task: the pieces of one turn *)

\* a transcript that carries only the last round of the ledger as context
BuildMessagesLastRound(history, task) ==
    <<LLMMessage("system", SYSTEM_PROMPT, NoCalls, NoId)>>
    \o (IF \E i \in Indices(history) : history[i].role = "user"
        THEN From(history, CHOOSE i \in Indices(history) :
                              /\ history[i].role = "user"
                              /\ \A j \in (i + 1)..Len(history) : history[j].role # "user")
        ELSE history)
    \o <<LLMMessage("user", task, NoCalls, NoId)>>

\* messages = [system] + conversation_history + [user(task)]
BuildMessages(history, task) ==
    <<LLMMessage("system", SYSTEM_PROMPT, NoCalls, NoId)>>
    \o history
    \o <<LLMMessage("user", task, NoCalls, NoId)>>

\* a start that appends the user message to the ledger at once
LedgerOnStartEager(history, task) ==
    Append(history, LLMMessage("user", task, NoCalls, NoId))

\* the ledger is not touched while the transcript is built
LedgerOnStart(history, task) == history

\* an assistant message that loses its invocations
AssistantContentOnly(text, tcs) == LLMMessage("assistant", text, NoCalls, NoId)

\* LLMMessage(role="assistant", content=content or "", tool_calls=tool_calls)
AssistantWithCalls(text, tcs) == LLMMessage("assistant", text, tcs, NoId)

\* a result string that forgets the error branch
ToolResultStrNoError(result) == result.result

\* result.result if result.success else (result.error or EXEC_FAILED)
ToolResultStr(result) ==
    IF result.success THEN result.result
    ELSE IF Truthy(result.error) THEN result.error ELSE EXEC_FAILED

\* a tool message that takes the result string as it is, empty or not
ToolMessageAsIs(tc, result) ==
    LLMMessage("tool", ToolResultStr(result), NoCalls, tc.id)

\* a tool message that refers to its invocation by the function name
ToolMessageNamed(tc, result) ==
    LLMMessage("tool", result.result, NoCalls, tc.name)

\* the tool message appended for invocation tc
ToolMessage(tc, result) ==
    LET tool_result_str == ToolResultStr(result)
    IN LLMMessage("tool",
                  IF Truthy(tool_result_str) THEN tool_result_str ELSE NO_RESULT,
                  NoCalls, tc.id)

\* a tool loop that asks for a completion whether there are definitions or not
AfterStartAlwaysAsks(tool_defs) == "chat_complete"

\* if not tool_definitions: break, in the first iteration of the tool loop
AfterStart(tool_defs) == IF tool_defs THEN "chat_complete" ELSE "chat"

\* a tool loop that writes each tool message to the ledger as it arrives
LedgerAfterSkillEager(history, msg) == Append(history, msg)

\* messages.append(...): the tool message goes to the transcript, the ledger
\* is not touched
LedgerAfterSkill(history, msg) == history

\* a loop over the invocations that stops after the first
AfterSkillFirstOnly(idx, tcs, round) ==
    IF round + 1 < max_tool_rounds THEN "chat_complete" ELSE "chat"

\* a tool loop with no budget: another completion after every group
AfterSkillNoBudget(idx, tcs, round) ==
    IF idx < Len(tcs) THEN "execute_skill" ELSE "chat_complete"

\* where the turn goes after the tool message of invocation number idx of tcs,
\* in iteration round of the tool loop
AfterSkill(idx, tcs, round) ==
    IF idx < Len(tcs) THEN "execute_skill"
    ELSE IF round + 1 < max_tool_rounds THEN "chat_complete"
    ELSE "chat"

\* a commit that takes the whole transcript after the system prompt as new
NewMessagesFromStart(history, msgs) == SubSeq(msgs, 2, Len(msgs))

\* messages[history_start_idx:], history_start_idx = 1 + len(conversation_history)
NewMessages(history, msgs) == SubSeq(msgs, 2 + Len(history), Len(msgs))

\* a truncation that cuts and appends no marker
TruncateNoMarker(msg) ==
    IF msg.role = "tool" /\ Truthy(msg.content) /\ msg.content.len > TOOL_RESULT_CEILING
    THEN LLMMessage(msg.role, [msg.content EXCEPT !.len = TOOL_RESULT_CEILING],
                    NoCalls, msg.tool_call_id)
    ELSE msg

\* the per-message truncation of the commit loop
Truncate(msg) ==
    IF msg.role = "tool" /\ Truthy(msg.content) /\ msg.content.len > TOOL_RESULT_CEILING
    THEN LLMMessage(msg.role, CutWithMarker(msg.content), NoCalls, msg.tool_call_id)
    ELSE msg

\* a reply appended without looking at it
ReplyMessagesAlways(reply) == <<LLMMessage("assistant", reply, NoCalls, NoId)>>

\* the final plain assistant message, appended if full_response.strip()
ReplyMessages(reply) ==
    IF StripNonEmpty(reply)
    THEN <<LLMMessage("assistant", reply, NoCalls, NoId)>>
    ELSE <<>>

\* a turn that returns the text of the last chat_complete response
FinalReplyOfLoop(text, reply) == text

\* full_response: the chunks of the final chat, whatever chat_complete said
FinalReply(text, reply) == reply

\* a commit that puts the reply in front of the round
CommitReplyFirst(history, msgs, reply) ==
    LET new_messages == NewMessages(history, msgs)
    IN history
       \o ReplyMessages(reply)
       \o [i \in 1..Len(new_messages) |-> Truncate(new_messages[i])]

\* the ledger after the commit loop and the reply, before the trim
Commit(history, msgs, reply) ==
    LET new_messages == NewMessages(history, msgs)
    IN history
       \o [i \in 1..Len(new_messages) |-> Truncate(new_messages[i])]
       \o ReplyMessages(reply)

---------------------------------------------------------------------------
(* What the collaborators may answer *)

SmallTask(n) == Text("task", n, 9, FALSE)

BigTask(n) == Text("task", n, 25000, FALSE)

CallLists ==
    { <<ToolCall("call_A", "web-search")>>,
      <<ToolCall("call_A", "web-search"), ToolCall("call_B", "sougou-search")>> }

CallContents == {Text("searching", 0, 7, FALSE)}

\* the text of a chat_complete response without invocations
StopContents == {Text("draft", 0, 12, FALSE)}

SkillResult(success, result, error) ==
    [success |-> success, result |-> result, error |-> error]

NoResult == SkillResult(TRUE, EmptyText, EmptyText)

SkillResults ==
    { SkillResult(TRUE, Text("result", 0, 40, FALSE), EmptyText),
      SkillResult(TRUE, Text("result", 0, 6000, FALSE), EmptyText),
      SkillResult(TRUE, EmptyText, EmptyText),
      SkillResult(FALSE, EmptyText, Text("error", 0, 13, FALSE)),
      SkillResult(FALSE, EmptyText, EmptyText) }

Replies ==
    { EmptyText, Text("spaces", 0, 2, TRUE), Text("reply", 0, 20, FALSE) }

\* the ceilings an engine is constructed with: none, one, two, three rounds
MaxRoundsChoices == {0, 1, 2, 3}

\* two agents, each constructed on its own
Agents == {"a", "b"}

OtherAgent(agent) == IF agent = "a" THEN "b" ELSE "a"

\* one list object for every agent
LedgerOfShared(agent) == "a"

\* self.conversation_history = []: the list object of an agent is its own
LedgerOf(agent) == agent

\* the question number n of an agent, told apart from the other agent's
AgentTask(agent, n) == Text(agent, n, 9, FALSE)

\* an agent after construction, no call running
FreshAgent ==
    [conversation_history |-> <<>>, tool_definitions |-> TRUE,
     max_rounds |-> DEFAULT_MAX_ROUNDS, pc |-> "idle", messages |-> <<>>,
     history_len |-> 0, tool_round |-> 0, tool_calls |-> NoCalls, tc_idx |-> 0,
     content |-> EmptyText,
     last_result |-> NoResult, full_response |-> EmptyText, outcome |-> "none",
     committed |-> 0]

\* there is no other agent
NoParked == [FreshAgent EXCEPT !.pc = "absent"]

\* what the exploration bounds count
ToolMessagesIn(msgs) == Cardinality({i \in Indices(msgs) : msgs[i].role = "tool"})

BigsIn(h) ==
    Cardinality({i \in Indices(h) : h[i].role = "user" /\ h[i].content.len > MAX_HISTORY_CHARS})

---------------------------------------------------------------------------
(* The collaborators at rest *)

SessionIds == {"s1", "s2"}

UserIds == {"u1", "u2"}

\* no session under this id: get_session_info and get_session_info_from_db
\* return None
NoSession == "absent"

\* no call of verify_session_owner was made
AuthIdle ==
    [memory |-> [sid \in SessionIds |-> NoSession],
     db |-> [sid \in SessionIds |-> NoSession],
     session_id |-> "s1", user_id |-> "u1", pc |-> "unused", outcome |-> "none"]

\* no search function, no runner, no retried call is at work
Unused == [pc |-> "unused"]

HarnessIdle ==
    /\ engine = Unused
    /\ scenario = Unused
    /\ trimmer = Unused

\* E2EConversationEngine(max_rounds): no call of chat made yet; user_input
\* is the argument of the call of chat that is suspended, chats counts the
\* calls that returned, said lists what chat_complete answered them
E2EConversationEngine(R) ==
    [conversation_history |-> <<>>, max_rounds |-> R, pc |-> "idle",
     user_input |-> EmptyText, chats |-> 0, said |-> <<>>]

CollaboratorsIdle ==
    /\ auth = AuthIdle
    /\ search = Unused
    /\ runner = Unused
    /\ retry = Unused

ApartInit ==
    /\ CollaboratorsIdle
    /\ HarnessIdle

---------------------------------------------------------------------------
\* the explorations with two agents are kept to one invocation per call
Paired == parked.pc # "absent"

\* side by side with the end-to-end engine the simulator is followed for as
\* many turns as the engine
TurnBound ==
    IF Paired THEN PairTurns
    ELSE IF engine.pc = "unused" THEN MaxTurns
    ELSE EquivTurns

ToolMessageBound == IF Paired THEN 1 ELSE MaxToolMessages

---------------------------------------------------------------------------
(* The turn machine *)

Init ==
    /\ conversation_history = <<>>
    /\ tool_definitions \in BOOLEAN
    /\ max_rounds \in MaxRoundsChoices
    /\ pc = "idle"
    /\ messages = <<>>
    /\ history_len = 0
    /\ tool_round = 0
    /\ tool_calls = NoCalls
    /\ tc_idx = 0
    /\ content = EmptyText
    /\ last_result = NoResult
    /\ full_response = EmptyText
    /\ outcome = "none"
    /\ committed = 0
    /\ trim_input = <<>>
    /\ report = <<>>
    /\ final_report = EmptyText
    /\ current = "a"
    /\ parked = NoParked
    /\ ledgers = [agent \in Agents |-> <<>>]
    /\ ApartInit

\* the locals of execute_task are gone once it has returned or raised
DropLocals ==
    /\ messages' = <<>>
    /\ history_len' = 0
    /\ tool_round' = 0
    /\ tool_calls' = NoCalls
    /\ tc_idx' = 0
    /\ content' = EmptyText
    /\ last_result' = NoResult

\* execute_task up to its first await
Start(task) ==
    /\ pc = "idle"
    /\ committed < TurnBound
    /\ messages' = BuildMessages(conversation_history, task)
    /\ history_len' = Len(conversation_history)
    /\ conversation_history' = LedgerOnStart(conversation_history, task)
    /\ tool_round' = 0
    /\ full_response' = EmptyText
    /\ outcome' = "running"
    /\ pc' = AfterStart(tool_definitions)
    /\ UNCHANGED <<aside, tool_definitions, max_rounds, tool_calls, tc_idx, content, last_result,
                   committed>>

StartTurn == Start(SmallTask(committed + 1))

StartBigTurn ==
    /\ BigsIn(conversation_history) < MaxBigs
    /\ Start(BigTask(committed + 1))

\* chat_complete answers with text and the invocations tcs: the assistant
\* message is appended and the first invocation is up
ChatCompleteAnswers(text, tcs) ==
    /\ pc = "chat_complete"
    /\ content' = text
    /\ messages' = Append(messages, AssistantWithCalls(text, tcs))
    /\ tool_calls' = tcs
    /\ tc_idx' = 1
    /\ pc' = "execute_skill"
    /\ UNCHANGED <<conversation_history, aside, tool_definitions, max_rounds, history_len,
                   tool_round, last_result, full_response, outcome, committed>>

\* chat_complete answers with invocations
ChatCompleteToolCalls ==
    /\ pc = "chat_complete"
    /\ \E tcs \in CallLists, text \in CallContents :
           /\ ToolMessagesIn(messages) + Len(tcs) <= ToolMessageBound
           /\ ChatCompleteAnswers(text, tcs)

\* chat_complete answers with text and without invocations: break
ChatCompleteBreaks(text) ==
    /\ pc = "chat_complete"
    /\ content' = text
    /\ pc' = "chat"
    /\ UNCHANGED <<conversation_history, aside, tool_definitions, max_rounds, messages,
                   history_len, tool_round, tool_calls, tc_idx, last_result,
                   full_response, outcome, committed>>

ChatCompleteStop == \E text \in StopContents : ChatCompleteBreaks(text)

\* the completion interface fails: the exception leaves execute_task
Raise ==
    /\ pc' = "idle"
    /\ outcome' = "raised"
    /\ DropLocals
    /\ UNCHANGED <<conversation_history, aside, tool_definitions, max_rounds,
                   full_response, committed>>

ChatCompleteRaises ==
    /\ pc = "chat_complete"
    /\ Raise

\* execute_skill returns for invocation tc_idx: its tool message is appended
ExecuteSkillReturns(result) ==
    /\ pc = "execute_skill"
    /\ messages' = Append(messages, ToolMessage(tool_calls[tc_idx], result))
    /\ conversation_history' =
           LedgerAfterSkill(conversation_history, ToolMessage(tool_calls[tc_idx], result))
    /\ last_result' = result
    /\ pc' = AfterSkill(tc_idx, tool_calls, tool_round)
    /\ IF tc_idx < Len(tool_calls)
       THEN tc_idx' = tc_idx + 1 /\ UNCHANGED tool_round
       ELSE tc_idx' = tc_idx /\ tool_round' = tool_round + 1
    /\ UNCHANGED <<aside, tool_definitions, max_rounds, history_len,
                   tool_calls, content, full_response, outcome, committed>>

ExecuteSkill == \E result \in SkillResults : ExecuteSkillReturns(result)

\* the await on execute_skill is cancelled, or the capability interface raises
\* instead of reporting: the exception leaves execute_task
ExecuteSkillRaises ==
    /\ pc = "execute_skill"
    /\ Raise

\* the final chat ends: commit, trim, return, with no await in between
ChatStreams(reply) ==
    /\ pc = "chat"
    /\ \E text \in {FinalReply(content, reply)} :
           /\ full_response' = text
           /\ conversation_history' =
                  Trim(Commit(conversation_history, messages, text), max_rounds)
    /\ committed' = committed + 1
    /\ outcome' = "returned"
    /\ pc' = "idle"
    /\ DropLocals
    /\ UNCHANGED <<aside, tool_definitions, max_rounds>>

ChatReturns == \E reply \in Replies : ChatStreams(reply)

ChatRaises ==
    /\ pc = "chat"
    /\ Raise

Next ==
    \/ StartTurn
    \/ StartBigTurn
    \/ ChatCompleteToolCalls
    \/ ChatCompleteStop
    \/ ChatCompleteRaises
    \/ ExecuteSkill
    \/ ExecuteSkillRaises
    \/ ChatReturns
    \/ ChatRaises

Spec == Init /\ [][Next]_vars

---------------------------------------------------------------------------
(* The tool loop to its end: one agent whose completion interface may ask   *)
(* for invocations in every iteration, with a capability that answers.      *)

LoopInit ==
    /\ Init
    /\ tool_definitions

LoopStartTurn ==
    /\ committed < LoopTurns
    /\ StartTurn

LoopChatCompleteToolCalls ==
    \E tcs \in CallLists, text \in CallContents : ChatCompleteAnswers(text, tcs)

LoopExecuteSkill ==
    ExecuteSkillReturns(SkillResult(TRUE, Text("result", 0, 40, FALSE), EmptyText))

LoopNext ==
    \/ LoopStartTurn
    \/ LoopChatCompleteToolCalls
    \/ ChatCompleteStop
    \/ LoopExecuteSkill
    \/ ChatReturns

LoopSpec == LoopInit /\ [][LoopNext]_vars

---------------------------------------------------------------------------
(* Two agents side by side: each is constructed with its own ledger, their  *)
(* calls of execute_task run as tasks of one event loop, which passes       *)
(* control from one to the other where a call is suspended or has ended     *)

PairInit ==
    /\ conversation_history = <<>>
    /\ tool_definitions = TRUE
    /\ max_rounds = DEFAULT_MAX_ROUNDS
    /\ pc = "idle"
    /\ messages = <<>>
    /\ history_len = 0
    /\ tool_round = 0
    /\ tool_calls = NoCalls
    /\ tc_idx = 0
    /\ content = EmptyText
    /\ last_result = NoResult
    /\ full_response = EmptyText
    /\ outcome = "none"
    /\ committed = 0
    /\ trim_input = <<>>
    /\ report = <<>>
    /\ final_report = EmptyText
    /\ current = "a"
    /\ parked = FreshAgent
    /\ ledgers = [agent \in Agents |-> <<>>]
    /\ ApartInit

\* the running agent asks its next question
PairStartTurn == Start(AgentTask(current, committed + 1))

\* control passes to the other agent: the running agent's fields and locals
\* are put aside, its ledger stays in its list object, the other agent goes
\* on with its own locals and with what its list object holds
Switch ==
    /\ Paired
    /\ LET heap == [ledgers EXCEPT ![LedgerOf(current)] = conversation_history]
       IN /\ ledgers' = heap
          /\ conversation_history' = heap[LedgerOf(OtherAgent(current))]
    /\ parked' =
           [conversation_history |-> conversation_history,
            tool_definitions |-> tool_definitions, max_rounds |-> max_rounds,
            pc |-> pc, messages |-> messages, history_len |-> history_len,
            tool_round |-> tool_round, tool_calls |-> tool_calls, tc_idx |-> tc_idx,
            content |-> content,
            last_result |-> last_result, full_response |-> full_response,
            outcome |-> outcome, committed |-> committed]
    /\ current' = OtherAgent(current)
    /\ tool_definitions' = parked.tool_definitions
    /\ max_rounds' = parked.max_rounds
    /\ pc' = parked.pc
    /\ messages' = parked.messages
    /\ history_len' = parked.history_len
    /\ tool_round' = parked.tool_round
    /\ tool_calls' = parked.tool_calls
    /\ tc_idx' = parked.tc_idx
    /\ content' = parked.content
    /\ last_result' = parked.last_result
    /\ full_response' = parked.full_response
    /\ outcome' = parked.outcome
    /\ committed' = parked.committed
    /\ UNCHANGED <<trim_input, report, final_report, apart>>

PairNext ==
    \/ PairStartTurn
    \/ ChatCompleteToolCalls
    \/ ChatCompleteStop
    \/ ChatCompleteRaises
    \/ ExecuteSkill
    \/ ExecuteSkillRaises
    \/ ChatReturns
    \/ ChatRaises
    \/ Switch

PairSpec == PairInit /\ [][PairNext]_vars

---------------------------------------------------------------------------
(* Two callers of execute_task on one agent: the calls run as tasks of one  *)
(* event loop, which passes control from one to the other where a call is   *)
(* suspended at an await (lines 327, 348, 358) or has ended; the agent's    *)
(* fields are shared, each call has its own locals, each caller its own     *)
(* count of calls that returned                                             *)

Yield ==
    /\ Paired
    /\ parked' =
           [conversation_history |-> conversation_history,
            tool_definitions |-> tool_definitions, max_rounds |-> max_rounds,
            pc |-> pc, messages |-> messages, history_len |-> history_len,
            tool_round |-> tool_round, tool_calls |-> tool_calls, tc_idx |-> tc_idx,
            content |-> content,
            last_result |-> last_result, full_response |-> full_response,
            outcome |-> outcome, committed |-> committed]
    /\ current' = OtherAgent(current)
    /\ pc' = parked.pc
    /\ messages' = parked.messages
    /\ history_len' = parked.history_len
    /\ tool_round' = parked.tool_round
    /\ tool_calls' = parked.tool_calls
    /\ tc_idx' = parked.tc_idx
    /\ content' = parked.content
    /\ last_result' = parked.last_result
    /\ full_response' = parked.full_response
    /\ outcome' = parked.outcome
    /\ committed' = parked.committed
    /\ UNCHANGED <<conversation_history, tool_definitions, max_rounds, ledgers,
                   trim_input, report, final_report, apart>>

OverlapNext ==
    \/ PairStartTurn
    \/ ChatCompleteToolCalls
    \/ ChatCompleteStop
    \/ ChatCompleteRaises
    \/ ExecuteSkill
    \/ ExecuteSkillRaises
    \/ ChatReturns
    \/ ChatRaises
    \/ Yield

OverlapSpec == PairInit /\ [][OverlapNext]_vars

\* no agent is at work: the state of the conversation engine after construction
AgentAtRest ==
    /\ conversation_history = <<>>
    /\ tool_definitions = TRUE
    /\ max_rounds = DEFAULT_MAX_ROUNDS
    /\ pc = "idle"
    /\ messages = <<>>
    /\ history_len = 0
    /\ tool_round = 0
    /\ tool_calls = NoCalls
    /\ tc_idx = 0
    /\ content = EmptyText
    /\ last_result = NoResult
    /\ full_response = EmptyText
    /\ outcome = "none"
    /\ committed = 0
    /\ trim_input = <<>>
    /\ report = <<>>
    /\ final_report = EmptyText
    /\ current = "a"
    /\ parked = NoParked
    /\ ledgers = [agent \in Agents |-> <<>>]

agent_vars == <<conversation_history, tool_definitions, max_rounds, pc, messages,
                history_len, tool_round, tool_calls, tc_idx, content, last_result,
                full_response, outcome, committed, trim_input, report,
                final_report, current, parked, ledgers>>

---------------------------------------------------------------------------
(* The trimmer on its own: _trim_conversation_history called on any history *)

TrimAlphabet ==
    { LLMMessage("user", Text("task", 0, 9, FALSE), NoCalls, NoId),
      LLMMessage("user", Text("task", 0, 13000, FALSE), NoCalls, NoId),
      LLMMessage("assistant", Text("reply", 0, 20, FALSE), NoCalls, NoId),
      LLMMessage("assistant", Text("searching", 0, 7, FALSE),
                 <<ToolCall("call_A", "web-search")>>, NoId),
      LLMMessage("tool", CutWithMarker(Text("result", 0, 6000, FALSE)), NoCalls, "call_A") }

Histories == UNION {[1..n -> TrimAlphabet] : n \in 0..MaxHistLen}

TrimArgs == (0..MaxRoundsArg) \cup {DEFAULT_MAX_ROUNDS}

TrimInit ==
    /\ conversation_history \in Histories
    /\ trim_input = conversation_history
    /\ max_rounds \in TrimArgs
    /\ tool_definitions = TRUE
    /\ pc = "fresh"
    /\ messages = <<>>
    /\ history_len = 0
    /\ tool_round = 0
    /\ tool_calls = NoCalls
    /\ tc_idx = 0
    /\ content = EmptyText
    /\ last_result = NoResult
    /\ full_response = EmptyText
    /\ outcome = "none"
    /\ committed = 0
    /\ report = <<>>
    /\ final_report = EmptyText
    /\ current = "a"
    /\ parked = NoParked
    /\ ledgers = [agent \in Agents |-> <<>>]
    /\ CollaboratorsIdle
    /\ engine = [E2EConversationEngine(max_rounds) EXCEPT
                     !.conversation_history = conversation_history, !.pc = "fresh"]
    /\ scenario = Unused
    /\ trimmer = Unused

TrimCall(from, to) ==
    /\ pc = from
    /\ pc' = to
    /\ conversation_history' = Trim(conversation_history, max_rounds)
    /\ UNCHANGED <<aside, tool_definitions, max_rounds, messages, history_len,
                   tool_round, tool_calls, tc_idx, content, last_result, full_response,
                   outcome, committed>>

TrimOnce == TrimCall("fresh", "trimmed")

TrimAgain == TrimCall("trimmed", "retrimmed")

\* the engine's _trim_history called on the same list with the same ceiling
TrimHistoryCall ==
    /\ engine.pc = "fresh"
    /\ engine' = [engine EXCEPT
                      !.pc = "trimmed",
                      !.conversation_history = TrimHistory(@, engine.max_rounds)]
    /\ UNCHANGED <<agent_vars, auth, search, runner, retry, scenario, trimmer>>

TrimNext ==
    \/ TrimOnce
    \/ TrimAgain
    \/ TrimHistoryCall

TrimSpec == TrimInit /\ [][TrimNext]_vars

---------------------------------------------------------------------------
(* The readers on their own: validate_message_sequence and                  *)
(* extract_session_summary called on any sequence of messages that a ledger *)
(* can hold                                                                  *)

LedgerAlphabet ==
    { LLMMessage("user", Text("task", 0, 9, FALSE), NoCalls, NoId),
      LLMMessage("assistant", Text("reply", 0, 20, FALSE), NoCalls, NoId),
      LLMMessage("assistant", Text("reply", 1, 2500, FALSE), NoCalls, NoId),
      LLMMessage("assistant", Text("searching", 0, 7, FALSE),
                 <<ToolCall("call_A", "web-search")>>, NoId),
      LLMMessage("tool", Text("result", 0, 40, FALSE), NoCalls, "call_A"),
      LLMMessage("tool", Text("result", 0, 40, FALSE), NoCalls, "call_B") }

ReadHistories == UNION {[1..n -> LedgerAlphabet] : n \in 0..MaxHistLen}

ReadInit ==
    /\ conversation_history \in ReadHistories
    /\ trim_input = <<>>
    /\ max_rounds = DEFAULT_MAX_ROUNDS
    /\ tool_definitions = TRUE
    /\ pc = "fresh"
    /\ messages = <<>>
    /\ history_len = 0
    /\ tool_round = 0
    /\ tool_calls = NoCalls
    /\ tc_idx = 0
    /\ content = EmptyText
    /\ last_result = NoResult
    /\ full_response = EmptyText
    /\ outcome = "none"
    /\ committed = 0
    /\ report = <<>>
    /\ final_report = EmptyText
    /\ current = "a"
    /\ parked = NoParked
    /\ ledgers = [agent \in Agents |-> <<>>]
    /\ ApartInit

\* a validator that removes the messages in front of the first user message
HistoryRepaired(h) ==
    IF \E i \in Indices(h) : h[i].role = "user"
    THEN From(h, CHOOSE i \in Indices(h) :
                     /\ h[i].role = "user"
                     /\ \A j \in 1..(i - 1) : h[j].role # "user")
    ELSE <<>>

\* the validator only reads history[i]: the list it is given stays as it is
HistoryAfterValidate(h) == h

\* the summary is built from a new list of contents: the ledger stays as it is
HistoryAfterExtract(h) == h

\* errors = validate_message_sequence(agent.conversation_history)
ValidateCall ==
    /\ pc = "fresh"
    /\ pc' = "validated"
    /\ report' = validate_message_sequence(conversation_history)
    /\ conversation_history' = HistoryAfterValidate(conversation_history)
    /\ UNCHANGED <<tool_definitions, max_rounds, messages,
                   history_len, tool_round, tool_calls, tc_idx, content, last_result,
                   full_response, outcome, committed, trim_input, final_report,
                   current, parked, ledgers, apart>>

\* summary = agent.extract_session_summary()
ExtractCall ==
    /\ pc = "fresh"
    /\ pc' = "summarized"
    /\ final_report' = extract_session_summary(conversation_history)
    /\ conversation_history' = HistoryAfterExtract(conversation_history)
    /\ UNCHANGED <<tool_definitions, max_rounds, messages,
                   history_len, tool_round, tool_calls, tc_idx, content, last_result,
                   full_response, outcome, committed, trim_input, report,
                   current, parked, ledgers, apart>>

ReadNext ==
    \/ ValidateCall
    \/ ExtractCall

ReadSpec == ReadInit /\ [][ReadNext]_vars

---------------------------------------------------------------------------
(* Session ownership: verify_session_owner over the in-memory session       *)
(* manager and the database                                                 *)

\* a stored session is known by its owner: a user id, or nobody (user_id None)
Owners == UserIds \cup {"nobody"}

\* what get_session_info returns for each id: a session info or None
MemoryStores == [SessionIds -> Owners \cup {NoSession}]

\* what get_session_info_from_db returns for each id: a dict with its
\* "user_id" entry, an empty dict, or None
DbStores == [SessionIds -> Owners \cup {"empty", NoSession}]

NoOutcome == [kind |-> "none", status_code |-> 0, detail |-> ""]

ReturnsNone == [kind |-> "returned", status_code |-> 0, detail |-> ""]

HTTPException(status_code, detail) ==
    [kind |-> "raised", status_code |-> status_code, detail |-> detail]

\* if session_info:
MemoryHit(session_info) == session_info # NoSession

\* a database check that only asks whether the session exists
DbDeniedMissingOnly(session_data, user_id) == session_data \in {NoSession, "empty"}

\* not session_data or session_data.get("user_id") != user_id
DbDenied(session_data, user_id) ==
    \/ session_data \in {NoSession, "empty"}
    \/ session_data # user_id

OwnerInit ==
    /\ AgentAtRest
    /\ HarnessIdle
    /\ auth \in [memory : MemoryStores, db : DbStores, session_id : SessionIds,
                  user_id : UserIds, pc : {"called"}, outcome : {NoOutcome}]
    /\ search = Unused
    /\ runner = Unused
    /\ retry = Unused

\* the lookup in the session manager and what follows a hit
VerifyInMemory ==
    /\ auth.pc = "called"
    /\ LET session_info == auth.memory[auth.session_id]
       IN auth' =
              IF MemoryHit(session_info)
              THEN IF session_info # auth.user_id
                   THEN [auth EXCEPT !.pc = "done",
                                     !.outcome = HTTPException(404, "Session not found")]
                   ELSE [auth EXCEPT !.pc = "done", !.outcome = ReturnsNone]
              ELSE [auth EXCEPT !.pc = "db_lookup"]
    /\ UNCHANGED <<agent_vars, harness, search, runner, retry>>

\* the awaited lookup in the database has answered
VerifyInDb ==
    /\ auth.pc = "db_lookup"
    /\ LET session_data == auth.db[auth.session_id]
       IN auth' =
              IF DbDenied(session_data, auth.user_id)
              THEN [auth EXCEPT !.pc = "done",
                                !.outcome = HTTPException(404, "Session not found")]
              ELSE [auth EXCEPT !.pc = "done", !.outcome = ReturnsNone]
    /\ UNCHANGED <<agent_vars, harness, search, runner, retry>>

OwnerNext ==
    \/ VerifyInMemory
    \/ VerifyInDb

OwnerSpec == OwnerInit /\ [][OwnerNext]_vars

---------------------------------------------------------------------------
(* The directly callable search functions: web_search and web_search_news   *)
(* (DuckDuckGo first, Bing as fallback) and sougou_search                   *)

\* what a searcher hands to the function that called it
Found(results) == [raised |-> FALSE, class |-> "", error |-> "", results |-> results]

Raises(class, error) ==
    [raised |-> TRUE, class |-> class, error |-> error, results |-> "none"]

\* a wrapper that catches SearchError only
DirectCallCatchesSearchError(inner) ==
    IF inner.raised
    THEN IF inner.class = "SearchError"
         THEN [kind |-> "returned", success |-> FALSE, error |-> inner.error,
               results |-> "none"]
         ELSE [kind |-> "raised", success |-> FALSE, error |-> inner.error,
               results |-> "none"]
    ELSE [kind |-> "returned", success |-> TRUE, error |-> "", results |-> inner.results]

\* try: ... return {"success": True, ...} except Exception as e: return
\* {"success": False, "error": str(e), ...}
DirectCallResult(inner) ==
    IF inner.raised
    THEN [kind |-> "returned", success |-> FALSE, error |-> inner.error, results |-> "none"]
    ELSE [kind |-> "returned", success |-> TRUE, error |-> "", results |-> inner.results]

\* the module is importable only with one of ddgs and httpx; each backend
\* answers with results, with none, or raises
WebSearchCalls ==
    {c \in [fn : {"web_search", "web_search_news"}, has_ddgs : BOOLEAN,
            has_httpx : BOOLEAN, ddg : {"results", "empty", "raises"},
            bing : {"results", "empty", "raises"}, credentials : {TRUE},
            query_empty : {FALSE}, http : {"ok"}, pc : {"called"},
            inner : {Found("none")}, outcome : {NoOutcome}] :
        c.has_ddgs \/ c.has_httpx}

SougouSearchCalls ==
    [fn : {"sougou_search"}, has_ddgs : {FALSE}, has_httpx : {TRUE},
     ddg : {"raises"}, bing : {"raises"}, credentials : BOOLEAN,
     query_empty : BOOLEAN,
     http : {"ok", "bad_code", "timeout", "status", "failed", "malformed"},
     pc : {"called"}, inner : {Found("none")}, outcome : {NoOutcome}]

SearchInit ==
    /\ AgentAtRest
    /\ HarnessIdle
    /\ auth = AuthIdle
    /\ search \in WebSearchCalls \cup SougouSearchCalls
    /\ runner = Unused
    /\ retry = Unused

\* the searcher is constructed and its search begins
SearcherStarts ==
    /\ search.pc = "called"
    /\ search' =
           IF search.fn = "sougou_search"
           THEN IF ~search.credentials
                THEN [search EXCEPT !.pc = "inner_done",
                                    !.inner = Raises("SearchError", "credentials")]
                ELSE IF search.query_empty
                     THEN [search EXCEPT !.pc = "inner_done", !.inner = Found("empty_list")]
                     ELSE [search EXCEPT !.pc = "http"]
           ELSE [search EXCEPT !.pc = IF search.has_ddgs THEN "duckduckgo" ELSE "bing"]
    /\ UNCHANGED <<agent_vars, harness, auth, runner, retry>>

\* DDGS answers: results are returned, none or an exception lead to Bing
DuckDuckGo ==
    /\ search.pc = "duckduckgo"
    /\ search' =
           IF search.ddg = "results"
           THEN [search EXCEPT !.pc = "inner_done", !.inner = Found("list")]
           ELSE [search EXCEPT !.pc = "bing"]
    /\ UNCHANGED <<agent_vars, harness, auth, runner, retry>>

\* the fallback: Bing if httpx is there, SearchError if not or if Bing fails
Bing ==
    /\ search.pc = "bing"
    /\ search' =
           [search EXCEPT
               !.pc = "inner_done",
               !.inner =
                   IF search.has_httpx
                   THEN IF search.bing = "raises"
                        THEN Raises("SearchError", "bing_failed")
                        ELSE Found(IF search.bing = "results" THEN "list" ELSE "empty_list")
                   ELSE Raises("SearchError", "unavailable")]
    /\ UNCHANGED <<agent_vars, harness, auth, runner, retry>>

\* the request to the Sougou interface and the parsing of its answer
SougouHttp ==
    /\ search.pc = "http"
    /\ search' =
           [search EXCEPT
               !.pc = "inner_done",
               !.inner =
                   CASE search.http = "ok" -> Found("list")
                     [] search.http = "timeout" -> Raises("SearchError", "timeout")
                     [] search.http = "status" -> Raises("SearchError", "http_status")
                     [] search.http = "failed" -> Raises("SearchError", "request_failed")
                     [] search.http = "bad_code" -> Raises("SearchError", "interface_error")
                     [] search.http = "malformed" -> Raises("AttributeError", "no_get")]
    /\ UNCHANGED <<agent_vars, harness, auth, runner, retry>>

\* the try/except of the directly callable function
DirectCallEnds ==
    /\ search.pc = "inner_done"
    /\ search' = [search EXCEPT !.pc = "done", !.outcome = DirectCallResult(search.inner)]
    /\ UNCHANGED <<agent_vars, harness, auth, runner, retry>>

SearchNext ==
    \/ SearcherStarts
    \/ DuckDuckGo
    \/ Bing
    \/ SougouHttp
    \/ DirectCallEnds

SearchSpec == SearchInit /\ [][SearchNext]_vars

---------------------------------------------------------------------------
(* The end-to-end runner: main of run_e2e.py, run, interrupted and run      *)
(* again, with the progress file it writes.                                 *)

\* ALL_SCENARIOS has five scenarios
NumScenarios == 5

\* the progress file: absent, or what save_progress wrote last
NoProgressFile == [exists |-> FALSE, phase |-> "none", completed |-> 0]

\* save_progress: phase and len(all_results), the file written anew
save_progress(all_results, phase) ==
    [exists |-> TRUE, phase |-> phase, completed |-> Len(all_results)]

\* pc: where main is; all_results: passed or not, one per scenario run;
\* executed: the scenarios (1-based) this run has executed, in order;
\* recorded: the completed count the file held when this run started
RunnerInit ==
    /\ AgentAtRest
    /\ HarnessIdle
    /\ auth = AuthIdle
    /\ search = Unused
    /\ runner = [pc |-> "not_running", file |-> NoProgressFile, all_results |-> <<>>,
                 executed |-> <<>>, recorded |-> 0, runs |-> 0]
    /\ retry = Unused

\* main is entered: all_results = [] and the loop starts at the first scenario
MainStarts ==
    /\ runner.pc = "not_running"
    /\ runner.runs < MaxRuns
    /\ runner' = [runner EXCEPT !.pc = "scenario", !.all_results = <<>>,
                                !.executed = <<>>,
                                !.recorded = runner.file.completed,
                                !.runs = runner.runs + 1]
    /\ UNCHANGED <<agent_vars, harness, auth, search, retry>>

\* run_scenario_safe on ALL_SCENARIOS[idx], idx = len(all_results), and the append
RunScenario(passed) ==
    /\ runner.pc = "scenario"
    /\ runner' = [runner EXCEPT
                     !.pc = "save",
                     !.all_results = Append(runner.all_results, passed),
                     !.executed = Append(runner.executed, Len(runner.all_results) + 1)]
    /\ UNCHANGED <<agent_vars, harness, auth, search, retry>>

\* save_progress(all_results, len(ALL_SCENARIOS)) and the cooldown before the
\* next scenario, or the end of the loop
SaveProgress ==
    /\ runner.pc = "save"
    /\ runner' = [runner EXCEPT
                     !.file = save_progress(runner.all_results, "running"),
                     !.pc = IF Len(runner.all_results) < NumScenarios
                            THEN "scenario" ELSE "report"]
    /\ UNCHANGED <<agent_vars, harness, auth, search, retry>>

\* generate_final_report: the file is written once more, phase completed
FinalReport ==
    /\ runner.pc = "report"
    /\ runner' = [runner EXCEPT
                     !.file = save_progress(runner.all_results, "completed"),
                     !.pc = "not_running"]
    /\ UNCHANGED <<agent_vars, harness, auth, search, retry>>

\* KeyboardInterrupt, or the process killed, anywhere in main
Interrupt ==
    /\ runner.pc \in {"scenario", "save", "report"}
    /\ runner' = [runner EXCEPT !.pc = "not_running"]
    /\ UNCHANGED <<agent_vars, harness, auth, search, retry>>

RunnerNext ==
    \/ MainStarts
    \/ \E passed \in BOOLEAN : RunScenario(passed)
    \/ SaveProgress
    \/ FinalReport
    \/ Interrupt

RunnerSpec == RunnerInit /\ [][RunnerNext]_vars

---------------------------------------------------------------------------
(* One call of call_with_retry (run_e2e.py), split at its awaits *)

\* an exception as the handler reads it: whether `except Exception` catches
\* it, and which of the three marks str(e) holds
Error(catchable, has_429, has_rate, has_cn) ==
    [catchable |-> catchable, has_429 |-> has_429, has_rate |-> has_rate,
     has_cn |-> has_cn]

NoError == Error(FALSE, FALSE, FALSE, FALSE)

\* what coro_func may raise: an error of another kind, the three rate-limit
\* wordings, and a cancellation that mentions 429
Errors ==
    { Error(TRUE, FALSE, FALSE, FALSE),
      Error(TRUE, TRUE, FALSE, FALSE),
      Error(TRUE, FALSE, TRUE, FALSE),
      Error(TRUE, FALSE, FALSE, TRUE),
      Error(FALSE, TRUE, FALSE, FALSE) }

\* what coro_func may return; None is one of them
Results == {"text", "None"}

RetryArgs == (0..MaxRetriesArg) \cup {DEFAULT_MAX_RETRIES}

\* "429" in err_str or "rate" in err_str.lower() or "限流" in err_str
IsRateLimited(e) == e.has_429 \/ e.has_rate \/ e.has_cn

\* a handler that sleeps and goes on after the last attempt too
MayRetryAlways(attempt, max_retries) == TRUE

\* if attempt < max_retries
MayRetry(attempt, max_retries) == attempt < max_retries

RECURSIVE Pow2(_)
Pow2(n) == IF n = 0 THEN 1 ELSE 2 * Pow2(n - 1)

\* delay = min(base_delay * (2 ** attempt), 120)
Delay(attempt) ==
    IF BASE_DELAY * Pow2(attempt) < DELAY_CEILING
    THEN BASE_DELAY * Pow2(attempt)
    ELSE DELAY_CEILING

\* how a call stands or ended: kind is none, returned (result: what), raised
\* (error: what) or fell_through (the for loop ran out: None is returned
\* without any attempt having succeeded)
RetryOutcome(kind, result, error) == [kind |-> kind, result |-> result, error |-> error]

\* attempt: the loop variable; calls: awaits of coro_func so far; slept: the
\* delays waited so far; last_error: what the last failed attempt raised
CallWithRetry(max_retries) ==
    [pc |-> "attempt", max_retries |-> max_retries, attempt |-> 0, calls |-> 0,
     slept |-> <<>>, last_error |-> NoError,
     outcome |-> RetryOutcome("none", "None", NoError)]

RetryInit ==
    /\ AgentAtRest
    /\ HarnessIdle
    /\ auth = AuthIdle
    /\ search = Unused
    /\ runner = Unused
    /\ retry \in {CallWithRetry(max_retries) : max_retries \in RetryArgs}

\* what call_with_retry does when await coro_func() returns: return result
RetryReturns(result) ==
    /\ retry.pc = "attempt"
    /\ retry' = [retry EXCEPT !.pc = "done", !.calls = retry.calls + 1,
                              !.outcome = RetryOutcome("returned", result, NoError)]

\* what call_with_retry does when await coro_func() raises e: the sleep before
\* the next attempt, or raise
RetryCatches(e) ==
    /\ retry.pc = "attempt"
    /\ retry' =
           IF e.catchable /\ IsRateLimited(e) /\ MayRetry(retry.attempt, retry.max_retries)
           THEN [retry EXCEPT !.pc = "sleep", !.calls = retry.calls + 1,
                              !.last_error = e,
                              !.slept = Append(retry.slept, Delay(retry.attempt))]
           ELSE [retry EXCEPT !.pc = "done", !.calls = retry.calls + 1,
                              !.last_error = e,
                              !.outcome = RetryOutcome("raised", "None", e)]

\* a coro_func that touches nothing else returns
AttemptSucceeds(result) ==
    /\ RetryReturns(result)
    /\ UNCHANGED <<agent_vars, harness, auth, search, runner>>

\* a coro_func that touches nothing else raises e
AttemptFails(e) ==
    /\ RetryCatches(e)
    /\ UNCHANGED <<agent_vars, harness, auth, search, runner>>

\* asyncio.sleep(delay) ends: continue with the next value of range(max_retries + 1)
SleepEnds ==
    /\ retry.pc = "sleep"
    /\ retry' =
           IF retry.attempt + 1 < retry.max_retries + 1
           THEN [retry EXCEPT !.pc = "attempt", !.attempt = retry.attempt + 1]
           ELSE [retry EXCEPT !.pc = "done",
                              !.outcome = RetryOutcome("fell_through", "None", NoError)]
    /\ UNCHANGED <<agent_vars, harness, auth, search, runner>>

RetryNext ==
    \/ \E result \in Results : AttemptSucceeds(result)
    \/ \E e \in Errors : AttemptFails(e)
    \/ SleepEnds

RetrySpec == RetryInit /\ [][RetryNext]_vars

---------------------------------------------------------------------------
(* One run of run_scenario (test_e2e_multi_turn.py) with its judge, split   *)
(* at the awaits of engine.chat and of the judge's chat_complete            *)

DEFAULT_SCORE == 5

Dimensions ==
    {"context_utilization", "reference_resolution", "information_accuracy",
     "coherence", "helpfulness"}

\* a scores object that gives every dimension the same mark
Scores(s) == [d \in Dimensions |-> s]

\* {}
EmptyDict == [d \in {} |-> 0]

RECURSIVE SumValues(_, _)
SumValues(scores, keys) ==
    IF keys = {} THEN 0
    ELSE LET k == CHOOSE x \in keys : TRUE
         IN scores[k] + SumValues(scores, keys \ {k})

\* a JSON value as run_scenario reads it: whether it is an object, what its
\* "scores" member is ({} when it has none) and where its reasoning is from
Json(is_dict, scores, reasoning) ==
    [is_dict |-> is_dict, scores |-> scores, reasoning |-> reasoning]

\* json.loads raised JSONDecodeError: no value
Undecodable == Json(FALSE, EmptyDict, "JSONDecodeError")

\* what evaluate_turn raised, in the place of a value
Raised(class) == Json(FALSE, EmptyDict, class)

\* the judge's reply as evaluate_turn reads it: is_str, whether content is a
\* string at all; direct, what json.loads says of the stripped text; braces,
\* whether the text has a {...} block; extracted, what json.loads says of that
\* block; cleaned, what it says of the block after the repairs
JudgeOutput(is_str, direct, braces, extracted, cleaned) ==
    [is_str |-> is_str, direct |-> direct, braces |-> braces,
     extracted |-> extracted, cleaned |-> cleaned]

NoOutput == JudgeOutput(FALSE, Undecodable, FALSE, Undecodable, Undecodable)

JudgeOutputs ==
    { JudgeOutput(TRUE, Json(TRUE, Scores(8), "judge"), TRUE, Undecodable, Undecodable),
      JudgeOutput(TRUE, Json(TRUE, Scores(5), "judge"), TRUE, Undecodable, Undecodable),
      JudgeOutput(TRUE, Json(TRUE, EmptyDict, "judge"), TRUE, Undecodable, Undecodable),
      JudgeOutput(TRUE, Json(FALSE, EmptyDict, "judge"), FALSE, Undecodable, Undecodable),
      JudgeOutput(TRUE, Undecodable, TRUE, Json(TRUE, Scores(8), "judge"), Undecodable),
      JudgeOutput(TRUE, Undecodable, TRUE, Undecodable, Json(TRUE, Scores(3), "judge")),
      JudgeOutput(TRUE, Undecodable, TRUE, Undecodable, Undecodable),
      JudgeOutput(TRUE, Undecodable, FALSE, Undecodable, Undecodable),
      JudgeOutput(FALSE, Undecodable, FALSE, Undecodable, Undecodable) }

\* none of the three parsing attempts yields a value
Unparseable(out) ==
    /\ out.is_str
    /\ out.direct = Undecodable
    /\ out.braces => (out.extracted = Undecodable /\ out.cleaned = Undecodable)

\* how a call of evaluate_turn ended
Evaluated(kind, result) == [kind |-> kind, result |-> result]

\* the fixed object of lines 278-283 and of lines 477-482
DefaultEval(reasoning) == Json(TRUE, Scores(DEFAULT_SCORE), reasoning)

\* a judge that lets the parsing error out
ParseFailedRaises == Evaluated("raised", Undecodable)

\* except (json.JSONDecodeError, KeyError): return the default
ParseFailed == Evaluated("returned", DefaultEval("parse_failed"))

\* evaluate_turn from the return of chat_complete on
evaluate_turn(out) ==
    IF ~out.is_str THEN Evaluated("raised", Raised("AttributeError"))
    ELSE IF out.direct # Undecodable THEN Evaluated("returned", out.direct)
    ELSE IF out.braces /\ out.extracted # Undecodable
         THEN Evaluated("returned", out.extracted)
    ELSE IF out.braces /\ out.cleaned # Undecodable
         THEN Evaluated("returned", out.cleaned)
    ELSE ParseFailed

\* TurnResult(turn_index, ..., scores, evaluation_reasoning)
TurnResult(turn_index, scores, reasoning) ==
    [turn_index |-> turn_index, scores |-> scores, evaluation_reasoning |-> reasoning]

\* the turns of a scenario, each by its min_expected_score
ScenarioTurns == UNION {[1..n -> {6, 7}] : n \in 1..MaxScenarioTurns}

\* run_scenario up to its first await; i is the 0-based loop variable
ScenarioInit ==
    /\ AgentAtRest
    /\ CollaboratorsIdle
    /\ engine = Unused
    /\ trimmer = Unused
    /\ scenario \in [pc : {"chat"}, turn_defs : ScenarioTurns, i : {0},
                    turns : {<<>>}, errors : {<<>>}, conversation_so_far : {0},
                    judged : {NoOutput}, evaluated : {Evaluated("none", Undecodable)},
                    overall_score : {<<0, 0>>}]

\* the loop goes to the next turn, or ends: overall_score as (sum, count) of
\* every mark of the recorded turns
NextTurn(sc) ==
    IF sc.i + 1 < Len(sc.turn_defs)
    THEN [sc EXCEPT !.i = sc.i + 1, !.pc = "chat"]
    ELSE [sc EXCEPT
             !.i = sc.i + 1, !.pc = "returned",
             !.overall_score =
                 LET RECURSIVE Total(_)
                     Total(ts) ==
                         IF ts = <<>> THEN <<0, 0>>
                         ELSE LET rest == Total(Tail(ts))
                                  keys == DOMAIN Head(ts).scores
                              IN <<rest[1] + SumValues(Head(ts).scores, keys),
                                   rest[2] + Cardinality(keys)>>
                 IN Total(sc.turns)]

\* lines 484-511 for the eval_result at hand
RecordTurn(sc, eval_result) ==
    IF ~eval_result.is_dict
    THEN [sc EXCEPT !.pc = "raised"]
    ELSE LET scores == eval_result.scores
             keys == DOMAIN scores
             below == IF keys = {} THEN TRUE
                      ELSE SumValues(scores, keys) < sc.turn_defs[sc.i + 1] * Cardinality(keys)
         IN NextTurn([sc EXCEPT
                !.turns = Append(@, TurnResult(sc.i + 1, scores, eval_result.reasoning)),
                !.errors = IF below THEN Append(@, "below_expected") ELSE @,
                !.conversation_so_far = @ + 2])

\* await engine.chat(turn.query) returns
ScenarioChatReturns ==
    /\ scenario.pc = "chat"
    /\ scenario' = [scenario EXCEPT !.pc = "evaluate_turn"]
    /\ UNCHANGED <<agent_vars, auth, search, runner, retry, engine, trimmer>>

\* await engine.chat(turn.query) raises: the error is noted, the turn skipped
ScenarioChatRaises ==
    /\ scenario.pc = "chat"
    /\ scenario' = NextTurn([scenario EXCEPT !.errors = Append(@, "chat_failed")])
    /\ UNCHANGED <<agent_vars, auth, search, runner, retry, engine, trimmer>>

\* the judge's chat_complete returns out: evaluate_turn parses it, run_scenario
\* goes on to the end of the loop body
JudgeAnswers(out) ==
    /\ scenario.pc = "evaluate_turn"
    /\ LET ended == evaluate_turn(out)
           eval_result == IF ended.kind = "returned" THEN ended.result
                          ELSE DefaultEval("call_failed")
       IN scenario' = RecordTurn([scenario EXCEPT !.judged = out, !.evaluated = ended],
                                 eval_result)
    /\ UNCHANGED <<agent_vars, auth, search, runner, retry, engine, trimmer>>

\* the judge's chat_complete raises: evaluate_turn lets it through
JudgeRaises ==
    /\ scenario.pc = "evaluate_turn"
    /\ scenario' = RecordTurn([scenario EXCEPT
                                  !.judged = NoOutput,
                                  !.evaluated = Evaluated("raised", Raised("Exception"))],
                              DefaultEval("call_failed"))
    /\ UNCHANGED <<agent_vars, auth, search, runner, retry, engine, trimmer>>

ScenarioNext ==
    \/ ScenarioChatReturns
    \/ ScenarioChatRaises
    \/ \E out \in JudgeOutputs : JudgeAnswers(out)
    \/ JudgeRaises

ScenarioSpec == ScenarioInit /\ [][ScenarioNext]_vars

---------------------------------------------------------------------------
(* E2EConversationEngine.chat, split at its await of chat_complete *)

Query(n) == Text("query", n, 9, FALSE)

\* an engine that appends the user message before it asks
HistoryOnChatEager(history, user_input) ==
    Append(history, LLMMessage("user", user_input, NoCalls, NoId))

\* lines 102-106: the request is built from the history, which stays as it is
HistoryOnChat(history, user_input) == history

\* lines 113-117: the two appends and the trim
HistoryAfterChat(history, user_input, assistant_reply, R) ==
    TrimHistory(history \o <<LLMMessage("user", user_input, NoCalls, NoId),
                             LLMMessage("assistant", assistant_reply, NoCalls, NoId)>>,
                R)

\* chat(user_input) up to its await
EngineChatStarts(user_input) ==
    /\ engine.pc = "idle"
    /\ engine' = [engine EXCEPT
                      !.pc = "chat_complete",
                      !.user_input = user_input,
                      !.conversation_history = HistoryOnChat(@, user_input)]

\* chat_complete returns a response with the content assistant_reply
EngineChatCompletes(assistant_reply) ==
    /\ engine.pc = "chat_complete"
    /\ engine' = [engine EXCEPT
                      !.pc = "idle",
                      !.user_input = EmptyText,
                      !.chats = @ + 1,
                      !.said = Append(@, assistant_reply),
                      !.conversation_history =
                          HistoryAfterChat(@, engine.user_input, assistant_reply,
                                           engine.max_rounds)]

\* chat_complete raises: chat lets the exception through
EngineChatFails ==
    /\ engine.pc = "chat_complete"
    /\ engine' = [engine EXCEPT !.pc = "idle", !.user_input = EmptyText]

---------------------------------------------------------------------------
(* run_scenario_safe (run_e2e.py): each turn's engine.chat goes through      *)
(* call_with_retry with its defaults; the evaluation that follows, wrapped   *)
(* the same way, is taken by what it ends with                               *)

SafeInit ==
    /\ AgentAtRest
    /\ auth = AuthIdle
    /\ search = Unused
    /\ runner = Unused
    /\ trimmer = Unused
    /\ retry = CallWithRetry(DEFAULT_MAX_RETRIES)
    /\ engine = E2EConversationEngine(ENGINE_MAX_ROUNDS)
    /\ scenario \in [pc : {"chat"}, turn_defs : ScenarioTurns, i : {0},
                    turns : {<<>>}, errors : {<<>>}, conversation_so_far : {0},
                    judged : {NoOutput}, evaluated : {Evaluated("none", Undecodable)},
                    overall_score : {<<0, 0>>}]

\* call_with_retry awaits coro_func(): the first attempt of a turn, or the
\* next attempt after a sleep; engine.chat runs up to its await
SafeAttemptStarts ==
    /\ scenario.pc = "chat"
    /\ retry.pc \in {"attempt", "done"}
    /\ EngineChatStarts(Query(scenario.i + 1))
    /\ retry' = IF retry.pc = "done" THEN CallWithRetry(retry.max_retries) ELSE retry
    /\ UNCHANGED <<agent_vars, auth, search, runner, scenario, trimmer>>

\* the attempt succeeds: chat commits and returns, call_with_retry returns
SafeChatReturns(assistant_reply) ==
    /\ scenario.pc = "chat"
    /\ EngineChatCompletes(assistant_reply)
    /\ RetryReturns("text")
    /\ scenario' = [scenario EXCEPT !.pc = "evaluate_turn"]
    /\ UNCHANGED <<agent_vars, auth, search, runner, trimmer>>

\* the attempt fails with e: call_with_retry sleeps or raises; what it raises
\* ends the turn (lines 77-82) unless `except Exception` does not catch it
SafeChatRaises(e) ==
    /\ scenario.pc = "chat"
    /\ EngineChatFails
    /\ RetryCatches(e)
    /\ scenario' =
           IF e.catchable /\ IsRateLimited(e) /\ MayRetry(retry.attempt, retry.max_retries)
           THEN scenario
           ELSE IF e.catchable
                THEN NextTurn([scenario EXCEPT !.errors = Append(@, "chat_failed"),
                                               !.conversation_so_far = @ + 2])
                ELSE [scenario EXCEPT !.pc = "raised"]
    /\ UNCHANGED <<agent_vars, auth, search, runner, trimmer>>

\* asyncio.sleep(delay) of call_with_retry ends
SafeSleepEnds ==
    /\ scenario.pc = "chat"
    /\ SleepEnds

\* the evaluation has ended with eval_result, the judge's or the default of
\* lines 98-103: lines 105-134
SafeTurnEvaluated(eval_result) ==
    /\ scenario.pc = "evaluate_turn"
    /\ scenario' = RecordTurn(scenario, eval_result)
    /\ UNCHANGED <<agent_vars, auth, search, runner, retry, engine, trimmer>>

SafeNext ==
    \/ SafeAttemptStarts
    \/ \E assistant_reply \in Replies : SafeChatReturns(assistant_reply)
    \/ \E e \in Errors : SafeChatRaises(e)
    \/ SafeSleepEnds
    \/ \E eval_result \in {Json(TRUE, Scores(8), "judge"), DefaultEval("call_failed")} :
           SafeTurnEvaluated(eval_result)

SafeSpec == SafeInit /\ [][SafeNext]_vars

---------------------------------------------------------------------------
(* The engine and the simulator side by side, without capability            *)
(* definitions: both are asked the same questions in the same order, and    *)
(* the simulator's final chat is given, turn by turn, the text the engine's *)
(* chat_complete was given                                                   *)

EquivInit ==
    /\ conversation_history = <<>>
    /\ tool_definitions = FALSE
    /\ max_rounds = DEFAULT_MAX_ROUNDS
    /\ pc = "idle"
    /\ messages = <<>>
    /\ history_len = 0
    /\ tool_round = 0
    /\ tool_calls = NoCalls
    /\ tc_idx = 0
    /\ content = EmptyText
    /\ last_result = NoResult
    /\ full_response = EmptyText
    /\ outcome = "none"
    /\ committed = 0
    /\ trim_input = <<>>
    /\ report = <<>>
    /\ final_report = EmptyText
    /\ current = "a"
    /\ parked = NoParked
    /\ ledgers = [agent \in Agents |-> <<>>]
    /\ CollaboratorsIdle
    /\ engine = E2EConversationEngine(ENGINE_MAX_ROUNDS)
    /\ scenario = Unused
    /\ trimmer = Unused

\* engine.chat(question) up to its await
EquivEngineStarts ==
    /\ engine.chats < EquivTurns
    /\ EngineChatStarts(SmallTask(engine.chats + 1))
    /\ UNCHANGED <<agent_vars, auth, search, runner, retry, scenario, trimmer>>

\* the engine's chat_complete returns
EquivEngineCompletes(assistant_reply) ==
    /\ EngineChatCompletes(assistant_reply)
    /\ UNCHANGED <<agent_vars, auth, search, runner, retry, scenario, trimmer>>

\* the simulator's final chat streams the text the engine got for this turn
EquivChatReturns ==
    /\ committed < Len(engine.said)
    /\ ChatStreams(engine.said[committed + 1])

EquivNext ==
    \/ EquivEngineStarts
    \/ \E assistant_reply \in Replies : EquivEngineCompletes(assistant_reply)
    \/ StartTurn
    \/ EquivChatReturns

EquivSpec == EquivInit /\ [][EquivNext]_vars

---------------------------------------------------------------------------
(* One call of a trimmer taken step by step: the simulator's                *)
(* _trim_conversation_history or the engine's _trim_history, on any         *)
(* history, up to the while loop and then one iteration at a time           *)

Trimmers == {"_trim_conversation_history", "_trim_history"}

\* MAX_HISTORY_CHARS of the one, MAX_CHARS of the other
BudgetOf(of) == IF of = "_trim_history" THEN MAX_CHARS ELSE MAX_HISTORY_CHARS

\* a count of what is removed that looks at the first message only
RemovedCharsOfFirst(h, next_round_start) == h[1].content.len

\* sum(len(m.content or "") for m in history[:next_round_start])
RemovedChars(h, next_round_start) == SumLens(SubSeq(h, 1, next_round_start - 1))

\* input: the history the call was made on; iterations: passes of the loop
StageBInit ==
    /\ AgentAtRest
    /\ CollaboratorsIdle
    /\ engine = Unused
    /\ scenario = Unused
    /\ trimmer \in {[of |-> of, pc |-> "called", history |-> h, input |-> h,
                    max_rounds |-> R, round_starts |-> <<>>, total_chars |-> 0,
                    iterations |-> 0] :
                       of \in Trimmers, h \in Histories, R \in TrimArgs}

\* from the call to the first test of the loop condition: the early return of
\* the simulator's trimmer, stage A, the total
TrimmerStarts ==
    /\ trimmer.pc = "called"
    /\ trimmer' =
           IF trimmer.of = "_trim_conversation_history" /\ trimmer.history = <<>>
           THEN [trimmer EXCEPT !.pc = "returned"]
           ELSE LET kept == IF trimmer.of = "_trim_history"
                            THEN TrimHistoryRounds(trimmer.history, trimmer.max_rounds)
                            ELSE TrimRounds(trimmer.history, trimmer.max_rounds)
                IN [trimmer EXCEPT !.pc = "while",
                                   !.history = kept,
                                   !.round_starts = RoundStarts(kept),
                                   !.total_chars = SumLens(kept)]
    /\ UNCHANGED <<agent_vars, auth, search, runner, retry, engine, scenario>>

\* the loop condition holds: one pass of the body
TrimmerIterates ==
    /\ trimmer.pc = "while"
    /\ trimmer.total_chars > BudgetOf(trimmer.of)
    /\ Len(trimmer.round_starts) > 2
    /\ LET next_round_start ==
               IF Len(trimmer.round_starts) > 1 THEN trimmer.round_starts[2]
               ELSE Len(trimmer.history) + 1
           removed_chars == RemovedChars(trimmer.history, next_round_start)
           kept == From(trimmer.history, next_round_start)
       IN trimmer' = [trimmer EXCEPT !.history = kept,
                                     !.total_chars = @ - removed_chars,
                                     !.round_starts = RoundStarts(kept),
                                     !.iterations = @ + 1]
    /\ UNCHANGED <<agent_vars, auth, search, runner, retry, engine, scenario>>

\* the loop condition fails: the trimmer returns
TrimmerReturns ==
    /\ trimmer.pc = "while"
    /\ ~(trimmer.total_chars > BudgetOf(trimmer.of) /\ Len(trimmer.round_starts) > 2)
    /\ trimmer' = [trimmer EXCEPT !.pc = "returned"]
    /\ UNCHANGED <<agent_vars, auth, search, runner, retry, engine, scenario>>

StageBNext ==
    \/ TrimmerStarts
    \/ TrimmerIterates
    \/ TrimmerReturns

StageBSpec == StageBInit /\ [][StageBNext]_vars

---------------------------------------------------------------------------
(* Vocabulary of the properties *)

IsTool(h, i) == h[i].role = "tool"

IsPlainReply(m) == m.role = "assistant" /\ ~HasToolCalls(m)

CallIds(m) == {m.tool_calls[i].id : i \in 1..Len(m.tool_calls)}

UserPositions(h) == {i \in Indices(h) : h[i].role = "user"}

\* the ledger from its last user message on: what the last committed call added
LastRound(h) ==
    IF UserPositions(h) = {} THEN <<>>
    ELSE From(h, CHOOSE i \in UserPositions(h) : \A j \in UserPositions(h) : j <= i)

\* the position of the n-th user message of h counted from position i down
\* (1 if there are fewer than n)
RECURSIVE NthLastUser(_, _, _)
NthLastUser(h, i, n) ==
    IF i = 0 THEN 1
    ELSE IF h[i].role = "user"
         THEN IF n = 1 THEN i ELSE NthLastUser(h, i - 1, n - 1)
         ELSE NthLastUser(h, i - 1, n)

\* the n >= 1 most recent rounds of h (all of h if it has no more than n)
RecentRounds(h, n) == From(h, NthLastUser(h, Len(h), n))

Returned == pc = "idle" /\ outcome = "returned"

\* every invocation group of h is whole: k tool messages right after the
\* assistant message, the i-th for the i-th invocation, and no further one
GroupsWhole(h) ==
    \A j \in Indices(h) :
        HasToolCalls(h[j]) =>
            LET k == Len(h[j].tool_calls)
            IN /\ j + k <= Len(h)
               /\ \A i \in 1..k :
                      /\ IsTool(h, j + i)
                      /\ h[j + i].tool_call_id = h[j].tool_calls[i].id
               /\ (j + k + 1 <= Len(h) => ~IsTool(h, j + k + 1))

\* the rounds of h: from each user message up to the next
Rounds(h) ==
    {SubSeq(h, u, CHOOSE e \in u..Len(h) :
                      /\ \A k \in (u + 1)..e : h[k].role # "user"
                      /\ (e < Len(h) => h[e + 1].role = "user"))
        : u \in UserPositions(h)}

\* r is one user message, then whole invocation groups, then at most one
\* plain assistant message, which is the last message
RoundShape(r) ==
    /\ r[1].role = "user"
    /\ \A i \in 2..Len(r) : r[i].role \in {"assistant", "tool"}
    /\ GroupsWhole(r)
    /\ \A i \in Indices(r) :
           IsTool(r, i) =>
               \E j \in 1..(i - 1) :
                   HasToolCalls(r[j]) /\ i <= j + Len(r[j].tool_calls)
    /\ \A i \in Indices(r) : IsPlainReply(r[i]) => i = Len(r)

\* h holds n rounds, all of them questions of agent
OwnLedger(agent, h, n) ==
    /\ \A i \in Indices(h) : h[i].role = "user" => h[i].content.kind = agent
    /\ count_rounds(h) = n

RoleCount(h, role) == Cardinality({i \in Indices(h) : h[i].role = role})

\* no tool message, and as many assistant messages as user messages
Balanced(h) ==
    /\ RoleCount(h, "tool") = 0
    /\ RoleCount(h, "user") = RoleCount(h, "assistant")

\* the assistant messages with invocations of h
InvocationMessages(h) == {i \in Indices(h) : HasToolCalls(h[i])}

\* what a running call still has in front of it, at most: every await that
\* is answered takes it down
StepsLeft ==
    LET widest == 2
        rounds_left == max_tool_rounds - tool_round
    IN CASE pc = "chat_complete" -> rounds_left * (widest + 1) + 1
         [] pc = "execute_skill" -> rounds_left * (widest + 1) + 1 - tc_idx
         [] pc = "chat" -> 1
         [] OTHER -> 0

\* stored is produced as a commit writes it: the same message, or the same
\* tool message with its long content cut
StoredAs(stored, produced) ==
    /\ stored.role = produced.role
    /\ stored.tool_calls = produced.tool_calls
    /\ stored.tool_call_id = produced.tool_call_id
    /\ \/ stored.content = produced.content
       \/ /\ produced.role = "tool"
          /\ produced.content.len > TOOL_RESULT_CEILING
          /\ stored.content.cut
          /\ stored.content.kind = produced.content.kind

\* the ledger h ends with the messages of produced, in their order, and after
\* them with `reply` (0 or 1) further messages
EndsWithRound(h, produced, reply) ==
    /\ Len(h) >= Len(produced) + reply
    /\ \A i \in Indices(produced) :
           StoredAs(h[Len(h) - reply - Len(produced) + i], produced[i])

\* a user message, then assistant messages with invocations and tool messages
ProducedShape(produced) ==
    /\ produced # <<>>
    /\ produced[1].role = "user"
    /\ \A i \in 2..Len(produced) :
           \/ produced[i].role = "tool"
           \/ produced[i].role = "assistant" /\ HasToolCalls(produced[i])

\* out is what is left of h after messages were removed from its front only,
\* and if any was removed, out starts a round
CutAtRoundStart(h, out) ==
    /\ Len(out) <= Len(h)
    /\ \A i \in Indices(out) : out[i] = h[Len(h) - Len(out) + i]
    /\ Len(out) < Len(h) => (out # <<>> /\ out[1].role = "user")

\* what a call of a trimmer still has in front of it, at most
TrimmerStepsLeft ==
    CASE trimmer.pc = "called" -> count_rounds(trimmer.history) + 2
      [] trimmer.pc = "while" -> count_rounds(trimmer.history) + 1
      [] OTHER -> 0

\* the k most recent rounds of h are within the budget, or are at the floor
FitsOrFloor(h, k) ==
    k <= 2 \/ TotalChars(RecentRounds(h, k)) <= MAX_HISTORY_CHARS

\* the number of rounds a trim of h with ceiling R >= 1 is to retain
RoundsToRetain(h, R) ==
    LET most == IF count_rounds(h) < R THEN count_rounds(h) ELSE R
    IN CHOOSE k \in 1..most :
           /\ FitsOrFloor(h, k)
           /\ \A j \in (k + 1)..most : ~FitsOrFloor(h, j)

IsFailureText(t) == t.kind \in {"error", "exec_failed"}

---------------------------------------------------------------------------
(* C1: every tool message of the ledger carries the id of an invocation of   *)
(* the nearest assistant message before it, and no user message lies         *)
(* between the two, whatever was committed and evicted so far.               *)
C1_ToolChainLinked ==
    \A i \in Indices(conversation_history) :
        IsTool(conversation_history, i) =>
            \E j \in 1..(i - 1) :
                /\ conversation_history[j].role = "assistant"
                /\ \A k \in (j + 1)..(i - 1) :
                       conversation_history[k].role \notin {"assistant", "user"}
                /\ conversation_history[i].tool_call_id \in CallIds(conversation_history[j])

\* a tool round committed after older rounds were evicted
C1_Witness ==
    /\ Returned
    /\ \E i \in Indices(conversation_history) : IsTool(conversation_history, i)
    /\ conversation_history[1].role = "user"
    /\ conversation_history[1].content.n > 1

(* C2: when the completion interface fails, in the tool loop or in the final *)
(* chat, the call raises and the ledger is the one the call started with     *)
(* (the copy of it that the transcript holds between the system prompt and   *)
(* the new user message).                                                    *)
C2_FailureCommitsNothing ==
    [][(pc # "idle" /\ outcome' = "raised") =>
          /\ pc' = "idle"
          /\ conversation_history' = SubSeq(messages, 2, history_len + 1)
          /\ conversation_history' = conversation_history]_vars

\* a call that raised on a ledger that already holds committed rounds
C2_Witness ==
    /\ pc = "idle"
    /\ outcome = "raised"
    /\ count_rounds(conversation_history) >= 2

(* C3: the validator finds nothing wrong with the ledger after every         *)
(* committed turn, evictions included.                                       *)
C3_ValidAfterCommit ==
    Returned => validate_message_sequence(conversation_history) = <<>>

\* a committed ledger with a tool round that has lost older rounds
C3_Witness ==
    /\ Returned
    /\ committed > count_rounds(conversation_history)
    /\ \E i \in Indices(conversation_history) : HasToolCalls(conversation_history[i])

(* C4: in the ledger every assistant message with k invocations is followed  *)
(* directly by exactly k tool messages, the i-th carrying the id of the i-th *)
(* invocation.                                                               *)
C4_OneToolMessagePerInvocation == GroupsWhole(conversation_history)

\* a committed group of two invocations
C4_Witness ==
    /\ Returned
    /\ \E j \in Indices(conversation_history) :
           Len(conversation_history[j].tool_calls) = 2

(* C5: a failure reported by the capability interface does not end the call: *)
(* the failure text becomes the content of the tool message of that          *)
(* invocation, the next invocation of the group is executed next, and every  *)
(* completion request and every commit sees whole groups.                    *)
C5_SkillStep ==
    (pc = "execute_skill" /\ ~last_result'.success) =>
        /\ outcome' = "running"
        /\ Len(messages') = Len(messages) + 1
        /\ SubSeq(messages', 1, Len(messages)) = messages
        /\ messages'[Len(messages')].role = "tool"
        /\ messages'[Len(messages')].tool_call_id = tool_calls[tc_idx].id
        /\ IsFailureText(messages'[Len(messages')].content)
        /\ (Truthy(last_result'.error) =>
                messages'[Len(messages')].content = last_result'.error)
        /\ IF tc_idx < Len(tool_calls)
           THEN pc' = "execute_skill" /\ tc_idx' = tc_idx + 1
           ELSE pc' \in {"chat_complete", "chat"}

\* C5: failures are absorbed at every step, and requests and commits see
\* whole groups
C5_FailureAbsorbed ==
    /\ [][C5_SkillStep]_vars
    /\ [](pc \in {"chat_complete", "chat"} => GroupsWhole(messages))
    /\ [](Returned => GroupsWhole(conversation_history))

\* a committed group whose first invocation failed and whose second ran
C5_Witness ==
    /\ Returned
    /\ \E j \in Indices(conversation_history) :
           /\ Len(conversation_history[j].tool_calls) = 2
           /\ j + 2 <= Len(conversation_history)
           /\ IsFailureText(conversation_history[j + 1].content)
           /\ IsTool(conversation_history, j + 2)
           /\ ~IsFailureText(conversation_history[j + 2].content)

(* C6, as claimed: every call that returns leaves exactly one plain          *)
(* assistant message among the messages it committed, and it is the last.    *)
C6_Original ==
    Returned =>
        LET r == LastRound(conversation_history)
        IN /\ r # <<>>
           /\ IsPlainReply(r[Len(r)])
           /\ Cardinality({i \in Indices(r) : IsPlainReply(r[i])}) = 1

(* C6, amended: a call that returns with a reply that strip() does not empty *)
(* commits exactly one plain assistant message, last and carrying the reply; *)
(* a call that returns with an empty or all-blank reply commits none.        *)
C6_ReplyIffNonBlank ==
    Returned =>
        LET r == LastRound(conversation_history)
            plain == {i \in Indices(r) : IsPlainReply(r[i])}
        IN /\ r # <<>>
           /\ r[1].content.n = committed
           /\ IF StripNonEmpty(full_response)
              THEN plain = {Len(r)} /\ r[Len(r)].content = full_response
              ELSE plain = {}

\* a returned call whose reply was blank, after a tool group
C6_Witness ==
    /\ Returned
    /\ ~StripNonEmpty(full_response)
    /\ full_response.len > 0
    /\ IsTool(conversation_history, Len(conversation_history))

(* C7, as claimed: after N >= max_rounds committed turns the ledger holds    *)
(* exactly max_rounds user messages, the oldest being question               *)
(* N - max_rounds + 1 (which exists for max_rounds >= 1).                    *)
C7_Original ==
    (Returned /\ max_rounds >= 1 /\ committed >= max_rounds) =>
        /\ count_rounds(conversation_history) = max_rounds
        /\ conversation_history[1].role = "user"
        /\ conversation_history[1].content.n = committed - max_rounds + 1

(* C7, amended: the same for max_rounds >= 1, provided the content of the    *)
(* max_rounds most recent rounds totals at most MAX_HISTORY_CHARS or         *)
(* max_rounds is at most 2; else the byte-budget stage evicts further rounds.*)
C7_Step ==
    (pc = "chat" /\ outcome' = "returned") =>
        \A appended \in {Commit(conversation_history, messages, full_response')} :
            (/\ max_rounds >= 1
             /\ committed' >= max_rounds
             /\ \/ max_rounds <= 2
                \/ TotalChars(RecentRounds(appended, max_rounds)) <= MAX_HISTORY_CHARS) =>
                /\ conversation_history' = RecentRounds(appended, max_rounds)
                /\ count_rounds(conversation_history') = max_rounds
                /\ conversation_history'[1].role = "user"
                /\ conversation_history'[1].content.n = committed' - max_rounds + 1

\* C7, amended: every commit keeps the max_rounds most recent rounds when
\* their content is within the budget
C7_RecentRoundsWithinBudget == [][C7_Step]_vars

\* more turns than max_rounds, the oldest evicted by the round stage
C7_Witness ==
    /\ Returned
    /\ max_rounds >= 2
    /\ committed > max_rounds
    /\ count_rounds(conversation_history) = max_rounds
    /\ conversation_history[1].content.n = committed - max_rounds + 1

(* C8: trimming a trimmed history again, with the same max_rounds, changes   *)
(* nothing, for histories of any shape.                                      *)
C8_TrimIdempotent ==
    [][pc = "trimmed" => conversation_history' = conversation_history]_vars

\* a history that does not start with a user message, cut by the first trim
\* and trimmed a second time
C8_Witness ==
    /\ pc = "retrimmed"
    /\ trim_input # <<>>
    /\ trim_input[1].role # "user"
    /\ conversation_history # trim_input

(* C9, as claimed: a history with at least 2 rounds keeps at least 2 rounds  *)
(* under trim, for every max_rounds.                                         *)
C9_Original ==
    (pc = "trimmed" /\ count_rounds(trim_input) >= 2) =>
        count_rounds(conversation_history) >= 2

(* C9, amended: a history with at least 2 rounds keeps at least 2 rounds     *)
(* under trim with max_rounds >= 2, also when it stays over the budget.      *)
C9_FloorOfTwo ==
    (pc = "trimmed" /\ count_rounds(trim_input) >= 2 /\ max_rounds >= 2) =>
        count_rounds(conversation_history) >= 2

\* the byte-budget stage stopped at 2 rounds although still over the budget
C9_Witness ==
    /\ pc = "trimmed"
    /\ max_rounds >= 3
    /\ count_rounds(trim_input) >= 3
    /\ count_rounds(conversation_history) = 2
    /\ TotalChars(conversation_history) > MAX_HISTORY_CHARS

(* C10: after every committed turn the ledger holds at most max_rounds       *)
(* rounds, for every configured max_rounds.                                  *)
C10_AtMostMaxRounds ==
    Returned => count_rounds(conversation_history) <= max_rounds

\* what the code does keep: the ceiling for every max_rounds of at least 1
C10_PositiveCeiling ==
    (Returned /\ max_rounds >= 1) => count_rounds(conversation_history) <= max_rounds

(* C11, as claimed: after every committed turn the content of the ledger    *)
(* totals at most MAX_HISTORY_CHARS.                                         *)
C11_Original ==
    Returned => TotalChars(conversation_history) <= MAX_HISTORY_CHARS

(* C11, amended: after every committed turn the content of the ledger totals *)
(* at most MAX_HISTORY_CHARS unless no more than 2 rounds are retained.      *)
C11_WithinBudgetOrFloor ==
    Returned =>
        \/ TotalChars(conversation_history) <= MAX_HISTORY_CHARS
        \/ count_rounds(conversation_history) <= 2

\* the budget stage evicted the oldest of three rounds, an oversized one, and
\* the two that remain are within the budget
C11_Witness ==
    /\ Returned
    /\ max_rounds = 3
    /\ committed = 3
    /\ count_rounds(conversation_history) = 2
    /\ TotalChars(conversation_history) <= MAX_HISTORY_CHARS
    /\ \E i \in Indices(conversation_history) : conversation_history[i].content.cut

(* C12: at commit a tool message longer than TOOL_RESULT_CEILING is stored   *)
(* as its first TOOL_RESULT_CEILING units plus the marker, with its          *)
(* invocation id, a shorter one is stored as it is, and no tool message of   *)
(* the ledger is ever longer than TOOL_RESULT_CEILING + MARKER_LEN.          *)
C12_CommitStep ==
    (pc = "chat" /\ outcome' = "returned") =>
        LET produced == SubSeq(messages, history_len + 2, Len(messages))
            stored == LastRound(conversation_history')
        IN /\ Len(stored) >= Len(produced)
           /\ \A i \in Indices(produced) :
                  produced[i].role = "tool" =>
                      /\ stored[i].role = "tool"
                      /\ stored[i].tool_call_id = produced[i].tool_call_id
                      /\ IF produced[i].content.len > TOOL_RESULT_CEILING
                         THEN /\ stored[i].content.len = TOOL_RESULT_CEILING + MARKER_LEN
                              /\ stored[i].content.cut
                              /\ stored[i].content.kind = produced[i].content.kind
                         ELSE stored[i] = produced[i]

\* C12: every commit truncates as said, and the ledger holds no longer tool
\* message at any time
C12_TruncatedAtCommit ==
    /\ [][C12_CommitStep]_vars
    /\ [](\A i \in Indices(conversation_history) :
              IsTool(conversation_history, i) =>
                  conversation_history[i].content.len <= TOOL_RESULT_CEILING + MARKER_LEN)

\* one committed group with a truncated and an untouched tool message
C12_Witness ==
    /\ Returned
    /\ \E i, j \in Indices(conversation_history) :
           /\ IsTool(conversation_history, i)
           /\ conversation_history[i].content.cut
           /\ conversation_history[i].content.len = TOOL_RESULT_CEILING + MARKER_LEN
           /\ IsTool(conversation_history, j)
           /\ ~conversation_history[j].content.cut
           /\ conversation_history[j].content.len = 40

(* C13: every step that changes the ledger leaves a suffix of the old ledger *)
(* that starts at a round boundary, followed by the messages the call        *)
(* produced (tool messages as stored, the reply if there is one).            *)
C13_Step ==
    conversation_history' # conversation_history =>
        /\ pc = "chat"
        /\ LET produced == SubSeq(messages, history_len + 2, Len(messages))
               stored == [i \in Indices(produced) |-> Truncate(produced[i])]
                         \o ReplyMessages(full_response')
           IN \E k \in 1..(Len(conversation_history) + 1) :
                  /\ k <= Len(conversation_history) =>
                         conversation_history[k].role = "user"
                  /\ conversation_history' = From(conversation_history, k) \o stored

\* C13: the ledger changes by prefix removal and appending only
C13_AppendAndPrefixRemoval == [][C13_Step]_vars

\* the third commit evicted the first round and kept the second, tool group
\* included, in front of its own messages
C13_Witness ==
    /\ Returned
    /\ committed = 3
    /\ count_rounds(conversation_history) = 2
    /\ conversation_history[1].content.n = 2
    /\ HasToolCalls(conversation_history[2])

(* C14: at every completion request the transcript is the system prompt, the *)
(* ledger (unchanged since the turn started), the new user message, and the  *)
(* whole invocation groups produced so far in this turn, in this order.      *)
C14_RequestTranscript ==
    pc \in {"chat_complete", "chat"} =>
        /\ Len(messages) >= history_len + 2
        /\ messages[1] = LLMMessage("system", SYSTEM_PROMPT, NoCalls, NoId)
        /\ history_len = Len(conversation_history)
        /\ SubSeq(messages, 2, history_len + 1) = conversation_history
        /\ messages[history_len + 2].role = "user"
        /\ messages[history_len + 2].content.n = committed + 1
        /\ \A i \in (history_len + 3)..Len(messages) :
               \/ messages[i].role = "assistant" /\ HasToolCalls(messages[i])
               \/ messages[i].role = "tool"
        /\ GroupsWhole(SubSeq(messages, history_len + 2, Len(messages)))

\* a request of a later turn whose transcript holds a retained tool result of
\* an earlier round and a group of this turn
C14_Witness ==
    /\ pc = "chat_complete"
    /\ committed >= 1
    /\ \E i \in 2..(history_len + 1) : IsTool(messages, i)
    /\ \E i \in (history_len + 3)..Len(messages) : IsTool(messages, i)

(* C15: while a call is suspended the ledger is the one the call started     *)
(* with; a call that raises or is cancelled leaves it unchanged; the ledger  *)
(* changes only in the one step that ends the call, to the committed and     *)
(* trimmed ledger.                                                           *)
C15_Step ==
    /\ (pc # "idle" /\ outcome' = "raised") =>
           conversation_history' = conversation_history
    /\ conversation_history' # conversation_history =>
           /\ pc = "chat"
           /\ pc' = "idle"
           /\ outcome' = "returned"
           /\ Trim(conversation_history', max_rounds) = conversation_history'
           /\ LastRound(conversation_history') # <<>>
           /\ LastRound(conversation_history')[1].content.n = committed'

\* C15: commit and trim are one step, and every suspended state shows the
\* pre-call ledger
C15_CommitAtomic ==
    /\ [][C15_Step]_vars
    /\ [](pc \in {"chat_complete", "execute_skill", "chat"} =>
              /\ history_len = Len(conversation_history)
              /\ conversation_history = SubSeq(messages, 2, history_len + 1))

\* a call suspended at its second capability request, the first tool message
\* in its transcript only, committed rounds in the ledger
C15_Witness ==
    /\ pc = "execute_skill"
    /\ tc_idx = 2
    /\ committed >= 1
    /\ conversation_history # <<>>

(* C16: of two agents with separate ledgers, each goes on, whenever control  *)
(* returns to it, with the ledger and the locals it was left with; a step of *)
(* one agent changes nothing of the other; each ledger holds the questions   *)
(* of its own agent only, and each call sees, while it is suspended, the     *)
(* ledger it started with: every interleaving leaves each agent a run of its *)
(* own.                                                                      *)
C16_Step ==
    /\ current' # current =>
           /\ conversation_history' = parked.conversation_history
           /\ parked'.conversation_history = conversation_history
           /\ pc' = parked.pc
           /\ messages' = parked.messages
           /\ committed' = parked.committed
    /\ current' = current =>
           /\ parked' = parked
           /\ ledgers'[LedgerOf(OtherAgent(current))]
                  = ledgers[LedgerOf(OtherAgent(current))]

\* C16: the steps respect the other agent, and both ledgers are those of a run
\* alone
C16_SessionsIndependent ==
    /\ [][C16_Step]_vars
    /\ [](pc \in {"idle", "chat_complete", "execute_skill", "chat"} =>
              /\ OwnLedger(current, conversation_history, committed)
              /\ OwnLedger(OtherAgent(current), parked.conversation_history,
                               parked.committed)
              /\ pc # "idle" =>
                     conversation_history = SubSeq(messages, 2, history_len + 1))

\* one agent has committed its second round, a tool round, while the second
\* call of the other waits for its reply with a tool message in its transcript
C16_Witness ==
    /\ Returned
    /\ committed = 2
    /\ IsTool(conversation_history, Len(conversation_history))
    /\ parked.pc = "chat"
    /\ parked.committed = 1
    /\ parked.conversation_history # <<>>
    /\ IsTool(parked.messages, Len(parked.messages))

(* C17: the summary is the content of the last assistant message without    *)
(* invocations, cut to REPORT_CEILING, and the empty text if there is none;  *)
(* it is never the content of an assistant message with invocations.         *)
C17_SummaryIsLastPlainReply ==
    pc = "summarized" =>
        LET h == conversation_history
            plain == {i \in Indices(h) : IsPlainReply(h[i])}
        IN /\ final_report.kind # "searching"
           /\ IF plain = {}
              THEN final_report = EmptyText
              ELSE LET last == CHOOSE i \in plain : \A j \in plain : j <= i
                   IN /\ final_report.kind = h[last].content.kind
                      /\ final_report.n = h[last].content.n
                      /\ final_report.len =
                             IF h[last].content.len <= REPORT_CEILING
                             THEN h[last].content.len
                             ELSE REPORT_CEILING

\* a long reply, then a tool group with no reply after it: the summary is the
\* long reply, cut
C17_Witness ==
    /\ pc = "summarized"
    /\ Len(conversation_history) >= 3
    /\ HasToolCalls(conversation_history[Len(conversation_history) - 1])
    /\ IsTool(conversation_history, Len(conversation_history))
    /\ \E i \in Indices(conversation_history) :
           /\ IsPlainReply(conversation_history[i])
           /\ conversation_history[i].content.len > REPORT_CEILING
    /\ final_report.len = REPORT_CEILING

(* C18: the validator reports a tool message if and only if no assistant     *)
(* message between the previous user message and the tool message carries an *)
(* invocation with the id of the tool message.                               *)
C18_ReportsUnlessIdMatches ==
    pc = "validated" =>
        \A i \in Indices(conversation_history) :
            IsTool(conversation_history, i) =>
                ((\E k \in 1..Len(report) : report[k] = i)
                 <=> ~\E j \in 1..(i - 1) :
                         /\ conversation_history[j].role = "assistant"
                         /\ conversation_history[i].tool_call_id
                                \in CallIds(conversation_history[j])
                         /\ \A k \in (j + 1)..(i - 1) :
                                conversation_history[k].role # "user")

\* what the validator does report: a tool message with no assistant message
\* with invocations, of any id, between the previous user message and itself
C18_ReportsUnlessSomeInvocation ==
    pc = "validated" =>
        \A i \in Indices(conversation_history) :
            IsTool(conversation_history, i) =>
                ((\E k \in 1..Len(report) : report[k] = i)
                 <=> ~FoundToolCalls(conversation_history, i))

(* C19: the validator returns a non-empty list for every non-empty history   *)
(* that does not start with a user message, hence for every history with a   *)
(* tool message that no user message precedes.                               *)
C19_ReportsMissingUser ==
    pc = "validated" =>
        /\ (conversation_history # <<>> /\ conversation_history[1].role # "user") =>
               report # <<>>
        /\ (\E i \in Indices(conversation_history) :
                /\ IsTool(conversation_history, i)
                /\ \A j \in 1..(i - 1) : conversation_history[j].role # "user") =>
               report # <<>>

\* a whole invocation group with no user message before it: the first-message
\* check is the only one that reports
C19_Witness ==
    /\ pc = "validated"
    /\ Len(conversation_history) >= 2
    /\ HasToolCalls(conversation_history[1])
    /\ IsTool(conversation_history, 2)
    /\ UserPositions(conversation_history) = {}
    /\ report = <<0>>

(* C20, as claimed: after every committed turn every round of the ledger is  *)
(* one user message, whole invocation groups, and a last plain assistant     *)
(* message.                                                                  *)
C20_Original ==
    Returned =>
        /\ conversation_history[1].role = "user"
        /\ \A r \in Rounds(conversation_history) :
               RoundShape(r) /\ IsPlainReply(r[Len(r)])

(* C20, amended: after every committed turn every round of the ledger is one *)
(* user message, whole invocation groups, and at most one plain assistant    *)
(* message, the last; the round just committed ends with it if and only if   *)
(* the reply was not blank.                                                  *)
C20_RoundsWellFormed ==
    Returned =>
        /\ conversation_history[1].role = "user"
        /\ \A r \in Rounds(conversation_history) : RoundShape(r)
        /\ LET r == LastRound(conversation_history)
           IN IsPlainReply(r[Len(r)]) <=> StripNonEmpty(full_response)

\* a round of two groups with its reply, behind a round that has none
C20_Witness ==
    /\ Returned
    /\ StripNonEmpty(full_response)
    /\ count_rounds(conversation_history) >= 2
    /\ \E r \in Rounds(conversation_history) : ~IsPlainReply(r[Len(r)])
    /\ LET r == LastRound(conversation_history)
       IN Cardinality({i \in Indices(r) : HasToolCalls(r[i])}) = 2

(* C21: a call of the validator or of the summary leaves the history as it  *)
(* was, message by message, whether the validator finds violations or not.   *)
C21_ReadersChangeNothing ==
    [][pc = "fresh" =>
          /\ pc' \in {"validated", "summarized"}
          /\ Len(conversation_history') = Len(conversation_history)
          /\ \A i \in Indices(conversation_history) :
                 conversation_history'[i] = conversation_history[i]]_vars

\* a history reported twice over, first message and tool message, and still
\* holding both
C21_Witness ==
    /\ pc = "validated"
    /\ Len(report) >= 2
    /\ conversation_history[1].role = "tool"
    /\ validate_message_sequence(conversation_history) = report

(* C22: verify_session_owner returns if and only if the session, looked up  *)
(* in memory and only on a miss in the database, is found and owned by the   *)
(* caller; every other call ends with the one error 404 "Session not found", *)
(* whether the session exists or not and wherever it is stored.              *)
C22_OwnerOrNotFound ==
    auth.pc = "done" =>
        LET in_memory == auth.memory[auth.session_id]
            in_db == auth.db[auth.session_id]
            owner == IF in_memory # NoSession THEN in_memory
                     ELSE IF in_db = "empty" THEN NoSession ELSE in_db
        IN /\ auth.outcome.kind = "returned" <=> owner = auth.user_id
           /\ auth.outcome.kind # "returned" =>
                  auth.outcome = HTTPException(404, "Session not found")

\* a session that exists, in the database only, and belongs to the other
\* user: the caller is told what it is told for a session that does not exist
C22_Witness ==
    /\ auth.pc = "done"
    /\ auth.memory[auth.session_id] = NoSession
    /\ auth.db[auth.session_id] \in UserIds \ {auth.user_id}
    /\ auth.outcome = HTTPException(404, "Session not found")

(* C23: web_search, web_search_news and sougou_search always return: with   *)
(* success and a result list exactly when a backend gave one (or the Sougou  *)
(* query was empty), else with success false and an error text.              *)
C23_SearchNeverRaises ==
    search.pc = "done" =>
        LET obtained ==
                IF search.fn = "sougou_search"
                THEN search.credentials /\ (search.query_empty \/ search.http = "ok")
                ELSE \/ search.has_ddgs /\ search.ddg = "results"
                     \/ search.has_httpx /\ search.bing # "raises"
        IN /\ search.outcome.kind = "returned"
           /\ search.outcome.success <=> obtained
           /\ search.outcome.success => search.outcome.results \in {"list", "empty_list"}
           /\ ~search.outcome.success =>
                  search.outcome.error # "" /\ search.outcome.results = "none"

\* an answer of the Sougou interface that the parsing trips over: an exception
\* that is no SearchError, returned as a failure
C23_Witness ==
    /\ search.pc = "done"
    /\ search.fn = "sougou_search"
    /\ search.http = "malformed"
    /\ search.inner.class = "AttributeError"
    /\ ~search.outcome.success

(* C24, as claimed: without tool definitions a commit with a reply that is  *)
(* not the empty text keeps the ledger free of tool messages and with as     *)
(* many assistant as user messages.                                          *)
C24_Original ==
    [][(/\ pc = "chat"
        /\ outcome' = "returned"
        /\ ~tool_definitions
        /\ Balanced(conversation_history)
        /\ Truthy(full_response')) => Balanced(conversation_history')]_vars

(* C24, amended: the same for a reply that strip() does not empty; and       *)
(* without tool definitions neither ledger nor transcript ever holds a tool  *)
(* message or an invocation.                                                 *)
C24_PlainConversation ==
    /\ [][(/\ pc = "chat"
           /\ outcome' = "returned"
           /\ ~tool_definitions
           /\ Balanced(conversation_history)
           /\ StripNonEmpty(full_response')) =>
              /\ Balanced(conversation_history')
              /\ LastRound(conversation_history')[2].content = full_response']_vars
    /\ [](~tool_definitions =>
              /\ RoleCount(conversation_history, "tool") = 0
              /\ RoleCount(messages, "tool") = 0
              /\ \A i \in Indices(conversation_history) :
                     ~HasToolCalls(conversation_history[i]))

\* three plain turns, every one answered: question and reply in every round,
\* the three of them retained
C24_Witness ==
    /\ Returned
    /\ ~tool_definitions
    /\ committed = 3
    /\ RoleCount(conversation_history, "user") = 3
    /\ RoleCount(conversation_history, "assistant") = 3

(* C25: the runner writes the progress file after each scenario, and a run   *)
(* started while the file records k completed scenarios executes only        *)
(* scenarios after the k-th.                                                 *)
C25_ResumesAfterRecorded ==
    /\ (runner.pc = "scenario" /\ runner.executed # <<>>) =>
           runner.file = save_progress(runner.all_results, "running")
    /\ \A i \in Indices(runner.executed) : runner.executed[i] > runner.recorded

(* C25, the half the runner keeps: between scenarios the file records as     *)
(* many completed scenarios as the run has executed.                         *)
C25_ProgressWritten ==
    (runner.pc = "scenario" /\ runner.executed # <<>>) =>
        /\ runner.file.exists
        /\ runner.file.phase = "running"
        /\ runner.file.completed = Len(runner.executed)

(* C26: a call whose collaborators answer ends: every answer takes it        *)
(* closer to its return; chat_complete is asked at most max_tool_rounds      *)
(* times, a round gets at most max_tool_rounds assistant messages with       *)
(* invocations; after the last iteration the call goes on to its reply       *)
(* without an error and commits the round with every group whole.            *)
C26_LoopExhausts ==
    /\ [](/\ tool_round <= max_tool_rounds
          /\ pc \in {"chat_complete", "execute_skill"} => tool_round < max_tool_rounds
          /\ Cardinality(InvocationMessages(messages)
                            \ 1..(1 + history_len)) <=
                 IF pc = "execute_skill" THEN tool_round + 1 ELSE tool_round
          /\ Cardinality(InvocationMessages(LastRound(conversation_history))) <=
                 max_tool_rounds
          /\ outcome # "raised")
    /\ [][outcome = "running" => StepsLeft' < StepsLeft]_vars
    /\ [][(/\ pc = "execute_skill"
           /\ tool_round = max_tool_rounds - 1
           /\ tc_idx = Len(tool_calls)) =>
              /\ pc' = "chat"
              /\ outcome' = "running"
              /\ tool_round' = max_tool_rounds]_vars
    /\ [][(pc = "chat" /\ tool_round = max_tool_rounds) =>
              /\ outcome' = "returned"
              /\ full_response' \in Replies
              /\ LET new_messages == NewMessages(conversation_history, messages)
                     h == conversation_history'
                 IN /\ Cardinality(InvocationMessages(new_messages)) = max_tool_rounds
                    /\ GroupsWhole(new_messages)
                    /\ \E reply \in {0, 1} :
                           /\ new_messages =
                                  SubSeq(h, Len(h) - reply - Len(new_messages) + 1,
                                         Len(h) - reply)
                           /\ reply = 1 => IsPlainReply(h[Len(h)])]_vars

\* five iterations, each with invocations, the last with two; the call has
\* returned the reply of the final chat and the round holds the five groups
C26_Witness ==
    /\ Returned
    /\ full_response.kind = "reply"
    /\ LET r == LastRound(conversation_history)
       IN /\ Cardinality(InvocationMessages(r)) = max_tool_rounds
          /\ Len(r) >= 4
          /\ IsPlainReply(r[Len(r)])
          /\ IsTool(r, Len(r) - 1)
          /\ IsTool(r, Len(r) - 2)
          /\ HasToolCalls(r[Len(r) - 3])

(* C27, as claimed: the text a call returns is the text of the chat_complete *)
(* response that ended its tool loop.                                        *)
C27_Original ==
    [][(pc = "chat" /\ outcome' = "returned" /\ tool_definitions) =>
           full_response' = content]_vars

(* C27, amended: a call returns from its final chat only, and with the text  *)
(* that chat streamed; the final chat is asked once the tool loop has ended, *)
(* on the transcript as the loop left it, and nothing is asked after it; the *)
(* text of a chat_complete response without invocations goes nowhere.        *)
C27_ReplyIsFinalChat ==
    /\ [][(outcome = "running" /\ outcome' = "returned") =>
              /\ pc = "chat"
              /\ full_response' \in Replies]_vars
    /\ [][pc = "chat" => pc' = "idle"]_vars
    /\ [](pc = "chat" =>
              /\ content \in StopContents \/ tool_round = max_tool_rounds
              /\ messages[Len(messages)].role \in {"user", "tool"}
              /\ GroupsWhole(messages))
    /\ [](\A i \in Indices(conversation_history) :
              IsPlainReply(conversation_history[i]) =>
                  conversation_history[i].content \in Replies)

\* chat_complete answered the first question with a text and no invocation;
\* the call returned what the final chat streamed and committed that
C27_Witness ==
    /\ Returned
    /\ tool_definitions
    /\ committed = 1
    /\ Len(conversation_history) = 2
    /\ IsPlainReply(conversation_history[2])
    /\ conversation_history[2].content = full_response
    /\ full_response \notin StopContents

(* C28, as claimed: a commit appends the messages the turn produced, in      *)
(* order, and after them a plain assistant message with the returned text    *)
(* if and only if that text is not the empty text.                           *)
C28_Original ==
    [][(pc = "chat" /\ outcome' = "returned") =>
           LET produced == SubSeq(messages, history_len + 2, Len(messages))
               h == conversation_history'
           IN /\ ProducedShape(produced)
              /\ IF Truthy(full_response')
                 THEN /\ EndsWithRound(h, produced, 1)
                      /\ IsPlainReply(h[Len(h)])
                      /\ h[Len(h)].content = full_response'
                 ELSE EndsWithRound(h, produced, 0)]_vars

(* C28, amended: the same, with the plain assistant message appended if and  *)
(* only if strip() leaves something of the returned text.                    *)
C28_CommitAppends ==
    [][(pc = "chat" /\ outcome' = "returned") =>
           LET produced == SubSeq(messages, history_len + 2, Len(messages))
               h == conversation_history'
           IN /\ ProducedShape(produced)
              /\ IF StripNonEmpty(full_response')
                 THEN /\ EndsWithRound(h, produced, 1)
                      /\ IsPlainReply(h[Len(h)])
                      /\ h[Len(h)].content = full_response'
                 ELSE EndsWithRound(h, produced, 0)]_vars

\* a second turn with a group of two invocations and a reply: the ledger ends
\* with question, assistant message, two tool messages and the reply
C28_Witness ==
    /\ Returned
    /\ committed = 2
    /\ StripNonEmpty(full_response)
    /\ Len(conversation_history) >= 6
    /\ LET h == conversation_history
           n == Len(conversation_history)
       IN /\ h[n].content = full_response
          /\ IsTool(h, n - 1)
          /\ IsTool(h, n - 2)
          /\ HasToolCalls(h[n - 3])
          /\ h[n - 4].role = "user"
          /\ h[n - 4].content.n = 2

(* C29: for a history that begins with a user message and max_rounds >= 1   *)
(* the trim leaves the k most recent whole rounds, k the largest number not  *)
(* above the round count and max_rounds whose rounds total at most           *)
(* MAX_HISTORY_CHARS or that is at most 2; so the budget stage has removed   *)
(* one oldest round at a time, each while over budget with more than 2 left. *)
C29_LargestFittingSuffix ==
    (/\ pc = "trimmed"
     /\ trim_input # <<>>
     /\ trim_input[1].role = "user"
     /\ max_rounds >= 1) =>
        LET k == RoundsToRetain(trim_input, max_rounds)
        IN /\ conversation_history = RecentRounds(trim_input, k)
           /\ count_rounds(conversation_history) = k
           /\ conversation_history[1].role = "user"

\* four rounds of which three are long, max_rounds 6: the budget stage has
\* removed two rounds, one after the other, and stopped at the floor
C29_Witness ==
    /\ pc = "trimmed"
    /\ max_rounds = DEFAULT_MAX_ROUNDS
    /\ Len(trim_input) = 4
    /\ count_rounds(trim_input) = 4
    /\ TotalChars(RecentRounds(trim_input, 3)) > MAX_HISTORY_CHARS
    /\ count_rounds(conversation_history) = 2
    /\ TotalChars(conversation_history) > MAX_HISTORY_CHARS

(* C30: call_with_retry returns the result of the first attempt that        *)
(* succeeds; an error that is not a rate-limit error leaves it on the        *)
(* attempt that raised it; rate-limit errors are retried at most max_retries *)
(* times, max_retries + 1 attempts in all, after which the last one leaves   *)
(* it; a call that has ended has returned a result or raised.                *)
C30_RetryContract ==
    /\ [](/\ retry.calls <= retry.max_retries + 1
          /\ Len(retry.slept) <= retry.max_retries
          /\ retry.pc = "attempt" => retry.calls = retry.attempt
          /\ Len(retry.slept) = retry.attempt + (IF retry.pc = "sleep" THEN 1 ELSE 0)
          /\ retry.pc = "done" =>
                 /\ retry.outcome.kind \in {"returned", "raised"}
                 /\ retry.calls = Len(retry.slept) + 1
                 /\ retry.outcome.kind = "raised" =>
                        /\ retry.outcome.error = retry.last_error
                        /\ (retry.last_error.catchable /\ IsRateLimited(retry.last_error)) =>
                               retry.calls = retry.max_retries + 1)
    /\ [][(retry.pc = "attempt" /\ retry'.outcome.kind = "returned") =>
              /\ retry'.pc = "done"
              /\ retry'.outcome.result \in Results
              /\ retry'.calls = retry.attempt + 1
              /\ retry'.slept = retry.slept
              /\ retry'.last_error = retry.last_error]_vars
    /\ [][(retry.pc = "attempt" /\ retry'.outcome.kind # "returned") =>
              LET e == retry'.last_error
              IN /\ retry'.calls = retry.attempt + 1
                 /\ IF e.catchable /\ IsRateLimited(e) /\ retry.attempt < retry.max_retries
                    THEN /\ retry'.pc = "sleep"
                         /\ Len(retry'.slept) = Len(retry.slept) + 1
                         /\ retry'.outcome.kind = "none"
                    ELSE /\ retry'.pc = "done"
                         /\ retry'.outcome = RetryOutcome("raised", "None", e)
                         /\ retry'.slept = retry.slept]_vars

\* five rate-limit errors waited out with 15, 30, 60, 120 and 120 seconds,
\* the sixth attempt fails in the same way and its error leaves the call
C30_Witness ==
    /\ retry.pc = "done"
    /\ retry.max_retries = DEFAULT_MAX_RETRIES
    /\ retry.calls = DEFAULT_MAX_RETRIES + 1
    /\ retry.slept = <<15, 30, 60, 120, 120>>
    /\ retry.outcome.kind = "raised"
    /\ IsRateLimited(retry.outcome.error)

(* C31: _trim_history of the end-to-end engine and                           *)
(* _trim_conversation_history of the simulator, called on the same history   *)
(* with the same max_rounds, leave the same retained history.                *)
C31_SamePolicy ==
    (pc = "trimmed" /\ engine.pc = "trimmed") =>
        /\ engine.max_rounds = max_rounds
        /\ engine.conversation_history = conversation_history

\* four rounds of which three are long: both trimmers have removed two rounds
\* in their budget stage
C31_Witness ==
    /\ pc = "trimmed"
    /\ engine.pc = "trimmed"
    /\ count_rounds(trim_input) = 4
    /\ max_rounds = DEFAULT_MAX_ROUNDS
    /\ count_rounds(engine.conversation_history) = 2
    /\ TotalChars(engine.conversation_history) > MAX_CHARS

(* C32: when none of the parsing attempts of evaluate_turn yields a value,   *)
(* evaluate_turn does not raise, it returns the mark 5 for each of the five  *)
(* dimensions, and run_scenario records a turn result for that turn, with    *)
(* those marks.                                                              *)
C32_DefaultOnUnparseable ==
    [][(scenario.pc = "evaluate_turn" /\ Unparseable(scenario'.judged)) =>
           /\ scenario'.evaluated.kind = "returned"
           /\ DOMAIN scenario'.evaluated.result.scores = Dimensions
           /\ Cardinality(Dimensions) = 5
           /\ \A d \in Dimensions : scenario'.evaluated.result.scores[d] = DEFAULT_SCORE
           /\ scenario'.pc # "raised"
           /\ Len(scenario'.turns) = Len(scenario.turns) + 1
           /\ LET recorded == scenario'.turns[Len(scenario'.turns)]
              IN /\ recorded.turn_index = scenario.i + 1
                 /\ recorded.scores = Scores(DEFAULT_SCORE)
                 /\ recorded.evaluation_reasoning = "parse_failed"]_vars

\* the judge's second reply had a {...} block that no attempt could decode:
\* the second turn is recorded with the default marks
C32_Witness ==
    /\ scenario.pc = "returned"
    /\ Unparseable(scenario.judged)
    /\ scenario.judged.braces
    /\ Len(scenario.turns) = 2
    /\ scenario.turns[1].scores = Scores(8)
    /\ scenario.turns[2].scores = Scores(DEFAULT_SCORE)
    /\ scenario.turns[2].evaluation_reasoning = "parse_failed"

(* C33: a call of execute_task commits exactly the messages it produced, its *)
(* user message first, then what the tool loop appended, then its reply,     *)
(* also when another call on the same agent has committed since it started;  *)
(* the user message of every call that returned is in the ledger exactly     *)
(* once, and the validator reports nothing.                                  *)
C33_CommitsOwnMessages ==
    /\ [][(pc = "chat" /\ outcome' = "returned" /\ current' = current) =>
              LET produced == SubSeq(messages, history_len + 2, Len(messages))
                  stored == [i \in 1..Len(produced) |-> Truncate(produced[i])]
                                \o ReplyMessages(full_response')
              IN conversation_history'
                     = Trim(conversation_history \o stored, max_rounds)]_vars
    /\ [](/\ \A n \in 1..committed :
                 Cardinality({i \in Indices(conversation_history) :
                                 /\ conversation_history[i].role = "user"
                                 /\ conversation_history[i].content
                                        = AgentTask(current, n)}) = 1
          /\ \A n \in 1..parked.committed :
                 Cardinality({i \in Indices(conversation_history) :
                                 /\ conversation_history[i].role = "user"
                                 /\ conversation_history[i].content
                                        = AgentTask(OtherAgent(current), n)}) = 1
          /\ validate_message_sequence(conversation_history) = <<>>)

(* C34: with max_rounds >= 1 the round a call commits is in the ledger after *)
(* the trim that follows: the last user message of the ledger is the call's  *)
(* user text, and after it come all the messages the call committed and no   *)
(* other, whatever their sizes.                                              *)
C34_CommittedRoundSurvives ==
    [][(pc = "chat" /\ outcome' = "returned" /\ max_rounds >= 1) =>
           \A round \in {LastRound(conversation_history')} :
               LET produced == SubSeq(messages, history_len + 2, Len(messages))
                   replies == IF StripNonEmpty(full_response') THEN 1 ELSE 0
               IN /\ round # <<>>
                  /\ round[1].role = "user"
                  /\ round[1].content = produced[1].content
                  /\ round[1].content.n = committed + 1
                  /\ Len(round) = Len(produced) + replies
                  /\ \A i \in Indices(produced) : StoredAs(round[i], produced[i])
                  /\ replies = 1 => round[Len(round)].content = full_response']_vars

\* the third call, with a question longer than the whole budget, has returned:
\* the budget stage has evicted the first round, and the round of the long
\* question, its invocation included, is in the ledger
C34_Witness ==
    /\ Returned
    /\ committed = 3
    /\ max_rounds = 3
    /\ count_rounds(conversation_history) = 2
    /\ LET round == LastRound(conversation_history)
       IN /\ round[1].content = BigTask(3)
          /\ Len(round) >= 4
          /\ IsTool(round, 3)

(* C35: what either trimmer leaves is a suffix of the history it was given,  *)
(* message for message the same, and if it has removed anything, what it     *)
(* leaves begins with a user message: it cuts at the start of a round only.  *)
C35_SuffixFromRoundStart ==
    /\ pc \in {"trimmed", "retrimmed"} => CutAtRoundStart(trim_input, conversation_history)
    /\ engine.pc = "trimmed" => CutAtRoundStart(trim_input, engine.conversation_history)

\* a history of two questions, of which the second was served with an
\* invocation: both trimmers, told to keep one round, have removed the first
\* question and kept the second with its assistant and tool message
C35_Witness ==
    /\ pc = "trimmed"
    /\ engine.pc = "trimmed"
    /\ max_rounds = 1
    /\ Len(trim_input) = 4
    /\ trim_input[1].role = "user"
    /\ Len(conversation_history) = 3
    /\ Len(engine.conversation_history) = 3
    /\ HasToolCalls(conversation_history[2])
    /\ IsTool(engine.conversation_history, 3)

(* C36: with engine.chat called through call_with_retry, a chat attempt that *)
(* fails leaves the engine's history as it was, and when an attempt succeeds *)
(* after k >= 0 failed ones the history holds the user message of that query *)
(* exactly once, followed by exactly one assistant message.                  *)
C36_RetriedChatCommitsOnce ==
    /\ [][(engine.pc = "chat_complete" /\ retry'.outcome.kind # "returned") =>
              engine'.conversation_history = engine.conversation_history]_vars
    /\ [][engine'.conversation_history # engine.conversation_history =>
              (retry.pc = "attempt" /\ retry'.outcome.kind = "returned")]_vars
    /\ []((scenario.pc = "evaluate_turn" /\ retry.outcome.kind = "returned") =>
              LET h == engine.conversation_history
                  q == Query(scenario.i + 1)
              IN /\ retry.calls = retry.attempt + 1
                 /\ Cardinality({i \in Indices(h) :
                                    h[i].role = "user" /\ h[i].content = q}) = 1
                 /\ Len(LastRound(h)) = 2
                 /\ LastRound(h)[1].content = q
                 /\ LastRound(h)[2].role = "assistant"
                 /\ RoleCount(h, "user") = engine.chats
                 /\ RoleCount(h, "assistant") = engine.chats)

\* the chat of the second turn has succeeded at the third attempt, after two
\* rate-limit errors and two sleeps; the first turn had succeeded too
C36_Witness ==
    /\ scenario.pc = "evaluate_turn"
    /\ scenario.i = 1
    /\ retry.outcome.kind = "returned"
    /\ retry.calls = 3
    /\ retry.slept = <<15, 30>>
    /\ Len(engine.conversation_history) = 4
    /\ engine.conversation_history[3].content = Query(2)

(* C37: without capability definitions and with max_rounds = 6, the engine   *)
(* and the simulator, given the same questions and the same reply texts,     *)
(* empty ones included, hold the same history after every turn: the same     *)
(* roles and contents in the same order.                                     *)
C37_SameHistory ==
    (pc = "idle" /\ engine.pc = "idle" /\ committed = engine.chats) =>
        /\ Len(engine.conversation_history) = Len(conversation_history)
        /\ \A i \in Indices(conversation_history) :
               /\ engine.conversation_history[i].role = conversation_history[i].role
               /\ engine.conversation_history[i].content = conversation_history[i].content

\* the same, as long as strip() leaves something of every reply text
C37_SameHistoryUnlessBlank ==
    (/\ pc = "idle"
     /\ engine.pc = "idle"
     /\ committed = engine.chats
     /\ \A n \in 1..committed : StripNonEmpty(engine.said[n])) =>
        /\ max_rounds = engine.max_rounds
        /\ engine.conversation_history = conversation_history

(* C38: no tool message of the ledger, nor of the transcript of a call, has  *)
(* empty content: for a successful invocation with an empty result the       *)
(* stored text is the fixed text of line 353, for a failed invocation        *)
(* without error text the fixed text of line 349.                            *)
C38_ToolContentNeverEmpty ==
    /\ \A i \in Indices(conversation_history) :
           IsTool(conversation_history, i) => Truthy(conversation_history[i].content)
    /\ \A i \in Indices(messages) : IsTool(messages, i) => Truthy(messages[i].content)
    /\ (messages # <<>> /\ IsTool(messages, Len(messages))) =>
           LET stored == messages[Len(messages)].content
           IN /\ (last_result.success /\ ~Truthy(last_result.result)) =>
                      stored = NO_RESULT
              /\ (~last_result.success /\ ~Truthy(last_result.error)) =>
                      stored = EXEC_FAILED

\* a committed group of two invocations: the first succeeded with an empty
\* result, the second failed without error text
C38_Witness ==
    /\ Returned
    /\ \E j \in Indices(conversation_history) :
           /\ Len(conversation_history[j].tool_calls) = 2
           /\ j + 2 <= Len(conversation_history)
           /\ conversation_history[j + 1].content = NO_RESULT
           /\ conversation_history[j + 2].content = EXEC_FAILED

(* C39: a call of either trimmer ends on every history: every step takes it  *)
(* closer to its return; each pass of the budget loop removes exactly one    *)
(* round and at least one message, so there are at most (rounds - 2) passes; *)
(* and after every pass the total kept by subtraction is the total of the    *)
(* contents of the history that is left. The call ends with what the         *)
(* trimmer taken as a whole leaves.                                          *)
C39_BudgetLoopEnds ==
    /\ [][TrimmerStepsLeft' < TrimmerStepsLeft]_vars
    /\ [][(trimmer.pc = "while" /\ trimmer'.pc = "while") =>
              /\ trimmer'.iterations = trimmer.iterations + 1
              /\ count_rounds(trimmer'.history) = count_rounds(trimmer.history) - 1
              /\ Len(trimmer'.history) < Len(trimmer.history)
              /\ trimmer'.total_chars = TotalChars(trimmer'.history)]_vars
    /\ [](/\ TrimmerStepsLeft >= 0
          /\ trimmer.pc # "returned" => TrimmerStepsLeft > 0
          /\ trimmer.pc # "called" => trimmer.total_chars = TotalChars(trimmer.history)
          /\ trimmer.iterations > 0 =>
                 /\ trimmer.iterations <= count_rounds(trimmer.input) - 2
                 /\ count_rounds(trimmer.history) >= 2
          /\ trimmer.pc = "returned" =>
                 trimmer.history =
                     IF trimmer.of = "_trim_history"
                     THEN TrimHistory(trimmer.input, trimmer.max_rounds)
                     ELSE Trim(trimmer.input, trimmer.max_rounds))

\* four rounds of one long question each: the loop has made its two passes
\* and the call has returned with two rounds, still over the budget
C39_Witness ==
    /\ trimmer.pc = "returned"
    /\ trimmer.of = "_trim_conversation_history"
    /\ count_rounds(trimmer.input) = 4
    /\ trimmer.iterations = 2
    /\ count_rounds(trimmer.history) = 2
    /\ trimmer.total_chars > MAX_HISTORY_CHARS

====
